---- MODULE Spec2Model ----
(***************************************************************************)
(* Model of the synthesis pipeline of the Edge-TTS proxy worker:           *)
(*   - the batch scheduler of src/_worker.js (getVoice, pipeChunksToStream)*)
(*     and the unbatched getVoice of the v1.2 worker (src/unnamed/part_001)*)
(*   - getAudioChunk, the per-chunk synthesis call                         *)
(*   - getEndpoint, the session-token cache (v1.2 with three attempts and  *)
(*     the single-attempt version of src/_worker.js)                       *)
(* Two specifications share the module: Spec (one synthesis job) and       *)
(* SpecToken (concurrent getEndpoint calls against the shared cache).      *)
(***************************************************************************)
EXTENDS Integers, Sequences, FiniteSets, TLC

\* ------------------------------------------------------------------------
\* Bounds of the model
\* ------------------------------------------------------------------------
MaxChunks == 3      \* a job has 0..MaxChunks chunks
MaxConc == 3        \* explicit `concurrency` values 1..MaxConc (plus 0, -1, default)
MaxIter == 5        \* cap on loop iterations (the loop never ends for concurrency <= 0)
NumCallers == 2     \* concurrent getEndpoint callers
MaxCalls == 3       \* getEndpoint calls per run
MaxAdvance == 1     \* idle time steps per run
MaxTextLen == 4     \* length of the texts given to the chunkers
MaxChunkSize == 3   \* chunk_size values given to smartChunkText

\* ------------------------------------------------------------------------
\* Program constants
\* ------------------------------------------------------------------------
DEFAULT_CONCURRENCY == 10
TOKEN_REFRESH_BEFORE_EXPIRY == 300      \* 5 * 60 seconds

Null == "null"

Max(a, b) == IF a >= b THEN a ELSE b
Min(a, b) == IF a <= b THEN a ELSE b

ChunkIds == 0 .. (MaxChunks - 1)

\* The three buffered/streaming entry points that fan out getAudioChunk calls.
Handlers == {"getVoice", "pipeChunksToStream", "getVoiceV12", "getVoiceStream"}
BatchHandlers == {"getVoice", "pipeChunksToStream"}
BufferedHandlers == {"getVoice", "getVoiceV12"}
StreamingHandlers == {"pipeChunksToStream", "getVoiceStream"}

\* `concurrency` is taken from the request body unvalidated; absent = default.
ConcurrencyValues == {-1, 0} \cup (1 .. MaxConc) \cup {DEFAULT_CONCURRENCY}

VARIABLES
    handler,        \* which entry point serves the job
    nChunks,        \* chunks.length
    concurrency,    \* the request's concurrency (default applied)
    jobpc,          \* "request" | "rejected" | "loop" | "await" | "write" | "drain" | "done"
    i,              \* loop index of the batch loop
    batch,          \* current batch: sequence of chunk indices (chunks.slice)
    wi,             \* streaming: position in audioBlobs of the next write
    nBatches,       \* batches started so far
    cpc,            \* per chunk call: "idle" | "endpoint" | "post" | "resolved" | "rejected"
    calls,          \* per chunk: getAudioChunk invocations
    posts,          \* per chunk: synthesis POSTs issued
    resp,           \* per chunk: the upstream response the call received
    cres,           \* per chunk: what getAudioChunk returned / threw
    batchOf,        \* per chunk: number of the batch that issued its call (0 = none)
    order,          \* chunks of the current batch in the order their calls fulfilled
    rejection,      \* Promise.all: error of the first rejected call of the batch
    allAudioBlobs,  \* buffered: blobs collected so far
    writer,         \* streaming: the TransformStream [state, written, read, aborts, closes]
    response        \* the job's HTTP response

schedVars == <<handler, nChunks, concurrency, jobpc, i, batch, wi, nBatches, cpc,
               calls, posts, resp, cres, batchOf, order, rejection,
               allAudioBlobs, writer, response>>

\* Session-token manager state (specification SpecToken)
VARIABLES
    tokenImpl,      \* "v12" (three attempts) | "worker" (src/_worker.js, one attempt)
    tokenInfo,      \* the module-level cache {endpoint, token, expiredAt}
    now,            \* Date.now(), in ms since the isolate started
    advances,       \* idle time steps taken
    issued,         \* tokens the upstream has handed out (their serial numbers)
    ncalls,         \* getEndpoint calls made
    epc,            \* per caller: "idle" | "fetch" | "sleep" | "returned" | "thrown"
    attempt,        \* per caller: the loop variable `attempt`
    wakeAt,         \* per caller: deadline of the pending setTimeout
    lastError,      \* per caller: the variable `lastError`
    ret,            \* per caller: the endpoint the call returned
    hs,             \* per caller: handshake requests issued by the current call
    fails,          \* per caller: failed attempts of the current call
    won,            \* per caller: data of the call's own successful handshake
    seenCached,     \* per caller: whether a token was cached when the call began
    seenFresh,      \* per caller: whether that token was fresh then (Fresh)
    seenEp,         \* per caller: the endpoint of that token, if it was fresh
    cacheAtEnd,     \* per caller: tokenInfo when the call's last attempt failed
    lastOk          \* data of the successful handshake response processed last

tokVars == <<tokenImpl, tokenInfo, now, advances, issued, ncalls, epc, attempt, wakeAt,
             lastError, ret, hs, fails, won, seenCached, seenFresh, seenEp,
             cacheAtEnd, lastOk>>

\* The inbound speech request (specification Spec)
VARIABLES
    reqInput,       \* requestBody.input: "missing" | "empty" | "blank" | "text"
    cleaned         \* number of cleanText calls made for the request

reqVars == <<reqInput, cleaned>>

\* Text normalization and chunking (specification SpecText)
VARIABLES
    text,           \* the input text, a sequence of characters
    options,        \* the cleaning options
    maxChunkLength, \* chunk_size
    tpc,            \* "input" | "cleaned" | "recleaned" | "chunked"
    cleanedText,    \* cleanText(text, options)
    cleanedTwice,   \* cleanText(cleanedText, options)
    textChunks,     \* the chunks cut from the text
    textImpl        \* whose cleanText / chunking: "worker" (src/_worker.js) | "v12"

textVars == <<text, options, maxChunkLength, tpc, cleanedText, cleanedTwice, textChunks,
              textImpl>>

\* The client-installation id (specification SpecId)
VARIABLES
    requestUrl,     \* request.url of a deployment: [valid, hostname]
    otherUrl,       \* request.url of a second deployment
    userId,         \* generateUserIdFromDomain(requestUrl), <<>> before the call
    otherUserId     \* generateUserIdFromDomain(otherUrl), <<>> before the call

idVars == <<requestUrl, otherUrl, userId, otherUserId>>

\* The request router and the history store (specification SpecWeb)
VARIABLES
    apiKey,         \* globalThis.API_KEY, "" when none is configured
    kv,             \* globalThis.TTS_HISTORY: the entries of one history item
    presented,      \* the visitor has presented the item's share password
    lastRequest,    \* the request handled last
    lastResponse,   \* the response to it
    nRequests       \* number of requests handled

webVars == <<apiKey, kv, presented, lastRequest, lastResponse, nRequests>>

\* Voice resolution of handleSpeechRequest (specification SpecVoice)
VARIABLES
    reqModel,       \* requestBody.model: [prefix, rest], the string prefix + rest
    reqVoice,       \* requestBody.voice, Undefined when omitted
    finalVoice      \* the voice the request is synthesized with, Undefined before

voiceVars == <<reqModel, reqVoice, finalVoice>>

\* XML escaping of the chunk text (specification SpecXml)
VARIABLES
    chunkText,      \* the chunk given to getAudioChunk, a sequence of characters
    escapedText,    \* escapedText / sanitizedText: what is put inside <prosody>
    xpc             \* "input" | "getAudioChunk" (v1.2) | "getSsml" (src/_worker.js)

xmlVars == <<chunkText, escapedText, xpc>>

\* The history store in KV (specifications SpecStore and SpecRace)
VARIABLES
    kvAudio,        \* the ids that have an audio_<id> entry
    kvMeta,         \* meta_<id>: id -> the item's metadata, for the ids that have one
    kvShare,        \* share_auth_<uuid>: uuid -> [contentHash], for the uuids stored
    kvIndex,        \* history_index: the sequence of index entries, newest first
    nextId,         \* the next crypto.randomUUID() (ids and share UUIDs are numbered)
    saved,          \* the ids of the completed saves, in the order they completed
    evicted,        \* the ids cleanupStorageIfNeeded deleted, in order
    deleted,        \* the ids handleDeleteRequest was completed for
    lastSave,       \* the last handleSaveRequest: [size, freed, total]
    shareResult,    \* the last /v1/ request with a share token: [uuid, content, status]
    procs,          \* SpecRace: per request in progress [op, pc, id, history]
    nOps            \* requests handled

storeVars == <<kvAudio, kvMeta, kvShare, kvIndex, nextId, saved, evicted, deleted,
               lastSave, shareResult, procs, nOps>>

\* the variables of the specifications that stand beside the synthesis job
extVars == <<idVars, webVars, voiceVars, xmlVars, storeVars>>

\* what an action of one of these specifications leaves alone
exceptId == <<schedVars, tokVars, reqVars, textVars, webVars, voiceVars, xmlVars, storeVars>>
exceptWeb == <<schedVars, tokVars, reqVars, textVars, idVars, voiceVars, xmlVars, storeVars>>
exceptVoice == <<schedVars, tokVars, reqVars, textVars, idVars, webVars, xmlVars, storeVars>>
exceptXml == <<schedVars, tokVars, reqVars, textVars, idVars, webVars, voiceVars, storeVars>>
exceptStore == <<schedVars, tokVars, reqVars, textVars, idVars, webVars, voiceVars, xmlVars>>

vars == <<schedVars, tokVars, reqVars, textVars, extVars>>

\* ------------------------------------------------------------------------
\* Values
\* ------------------------------------------------------------------------
NoMsg == [what |-> "", status |-> 0, body |-> <<>>]
NoResp == [status |-> 0, body |-> <<>>]
Pending == [kind |-> "pending", data |-> <<>>, err |-> NoMsg]

\* The audio the upstream synthesizes for chunk c: one byte naming the chunk.
Audio(c) == <<c>>
ErrorText(status) == <<status>>

\* What the synthesis endpoint may answer for chunk c.
UpstreamResponses(c) ==
    {[status |-> 200, body |-> Audio(c)],
     [status |-> 429, body |-> ErrorText(429)],
     [status |-> 500, body |-> ErrorText(500)]}

\* Response.ok
ResponseOk(r) == r.status >= 200 /\ r.status <= 299

Range(s) == {s[k] : k \in 1 .. Len(s)}

RECURSIVE Flatten(_)
\* new Blob([...blobs]): the blobs' bytes, concatenated in array order
Flatten(blobs) == IF blobs = <<>> THEN <<>> ELSE Head(blobs) \o Flatten(Tail(blobs))

\* Array.prototype.slice's relative index
RelIndex(k, len) == IF k < 0 THEN Max(len + k, 0) ELSE Min(k, len)

\* chunks.slice(start, end), as the sequence of chunk indices it holds
Slice(len, start, end) ==
    LET s == RelIndex(start, len)
        e == RelIndex(end, len)
    IN  [n \in 1 .. Max(e - s, 0) |-> s + n - 1]

\* errorResponse(message, status, code)
errorResponse(message, status, code) ==
    [kind |-> "error", status |-> status, audio |-> <<>>, message |-> message,
     code |-> code]

\* new Response(new Blob(blobs), {"Content-Type": "audio/mpeg"})
AudioResponse(blobs) ==
    [kind |-> "audio", status |-> 200, audio |-> Flatten(blobs), message |-> NoMsg,
     code |-> ""]

\* new Response(readable, ...): the body is whatever the writer side delivers
StreamResponse ==
    [kind |-> "stream", status |-> 200, audio |-> <<>>, message |-> NoMsg, code |-> ""]

NoResponse ==
    [kind |-> "none", status |-> 0, audio |-> <<>>, message |-> NoMsg, code |-> ""]

\* The TransformStream: `written` are the chunks writer.write accepted, `read` counts
\* those the response's consumer has taken from the readable side.
NewWriter ==
    [state |-> "writable", written |-> <<>>, read |-> 0, aborts |-> 0, closes |-> 0]
WriterWrite(w, bytes) ==
    IF w.state = "writable" THEN [w EXCEPT !.written = Append(@, bytes)] ELSE w
\* Variant: the abort is dropped.
WriterAbortIgnored(w) == w

WriterAbort(w) ==
    [w EXCEPT !.aborts = @ + 1,
              !.state = IF @ = "writable" THEN "errored" ELSE @]
WriterClose(w) ==
    [w EXCEPT !.closes = @ + 1,
              !.state = IF @ = "writable" THEN "closed" ELSE @]

\* The consumer takes the next chunk from the readable side.
ReaderRead(w) == [w EXCEPT !.read = @ + 1]

\* Variant: an abort leaves the unread chunks readable.
StreamOutputKeepsAll(w) == w.written

\* What the response's consumer has received or can still receive: an abort errors
\* the readable side and discards every chunk not yet read.
StreamOutput(w) ==
    IF w.state = "errored" THEN SubSeq(w.written, 1, w.read) ELSE w.written

\* ------------------------------------------------------------------------
\* handleSpeechRequest: validation of the request body
\* ------------------------------------------------------------------------
\* requestBody.input: absent, the empty string, a string of whitespace only, or a
\* string with text in it
RequestInputs == {"missing", "empty", "blank", "text"}

\* Variant: only an absent input is refused.
InputPresentUnlessMissing(input) == input # "missing"

\* !requestBody.input is false
InputPresent(input) == input \notin {"missing", "empty"}

MissingInputMessage ==
    [what |-> "'input' is a required parameter.", status |-> 0, body |-> <<>>]

\* The chunk counts the cleaned input may yield: none for a blank input (cleanText
\* trims it to ""), any number otherwise (cleaning may remove everything).
ChunkCounts(input) == IF input = "blank" THEN {0} ELSE 0 .. MaxChunks

\* handleSpeechRequest up to the call of streamVoice / getVoice: the body is parsed;
\* without an input the request is answered 400; otherwise the input is cleaned and
\* chunked and the job starts.
HandleSpeechRequest ==
    /\ jobpc = "request"
    /\ IF InputPresent(reqInput)
       THEN /\ cleaned' = cleaned + 1
            /\ nChunks' \in ChunkCounts(reqInput)
            /\ jobpc' = "loop"
            /\ response' = response
       ELSE /\ response' = errorResponse(MissingInputMessage, 400, "invalid_request_error")
            /\ jobpc' = "rejected"
            /\ cleaned' = cleaned
            /\ nChunks' = nChunks
    /\ UNCHANGED <<handler, concurrency, i, batch, wi, nBatches, cpc, calls, posts, resp,
                   cres, batchOf, order, rejection, allAudioBlobs, writer, reqInput>>
    /\ UNCHANGED <<tokVars, textVars, extVars>>

\* ------------------------------------------------------------------------
\* getAudioChunk: the per-chunk synthesis call
\* ------------------------------------------------------------------------
InFlight == {c \in ChunkIds : cpc[c] \in {"endpoint", "post"}}

\* A rejected call rejects the Promise.all the scheduler awaits; only the first
\* rejection of the batch is kept.
FirstRejection(c, err) ==
    IF jobpc = "await" /\ c \in Range(batch) /\ rejection = NoMsg THEN err ELSE rejection

\* Variant whose error drops the response body.
AudioChunkResultNoBody(r) ==
    IF ResponseOk(r)
    THEN [kind |-> "blob", data |-> r.body, err |-> NoMsg]
    ELSE [kind |-> "error", data |-> <<>>,
          err |-> [what |-> "Edge TTS API error", status |-> r.status, body |-> <<>>]]

\* What getAudioChunk makes of the upstream's response: the raw payload of a 2xx,
\* an Error carrying status and body otherwise.
AudioChunkResult(r) ==
    IF ResponseOk(r)
    THEN [kind |-> "blob", data |-> r.body, err |-> NoMsg]
    ELSE [kind |-> "error", data |-> <<>>,
          err |-> [what |-> "Edge TTS API error", status |-> r.status, body |-> r.body]]

\* batch.map(chunk => getAudioChunk(chunk, ...)): every call of the batch starts and
\* runs up to its first await (getEndpoint).
StartCalls(b, n) ==
    /\ cpc' = [c \in ChunkIds |-> IF c \in Range(b) THEN "endpoint" ELSE cpc[c]]
    /\ calls' = [c \in ChunkIds |->
                    calls[c] + Cardinality({k \in 1 .. Len(b) : b[k] = c})]
    /\ batchOf' = [c \in ChunkIds |-> IF c \in Range(b) THEN n ELSE batchOf[c]]

\* getEndpoint returned: the call builds the SSML and issues its one POST.
\* (getEndpoint itself is the subject of SpecToken; here its outcome is an input.)
GetAudioChunkPost(c) ==
    /\ cpc[c] = "endpoint"
    /\ cpc' = [cpc EXCEPT ![c] = "post"]
    /\ posts' = [posts EXCEPT ![c] = @ + 1]
    /\ UNCHANGED <<handler, nChunks, concurrency, jobpc, i, batch, wi, nBatches, calls,
                   resp, cres, batchOf, order, rejection, allAudioBlobs, writer,
                   response>>
    /\ UNCHANGED <<tokVars, reqVars, textVars, extVars>>

\* getEndpoint threw (no token could be acquired): the call rejects without a POST.
GetAudioChunkNoEndpoint(c) ==
    /\ cpc[c] = "endpoint"
    /\ LET err == [what |-> "Failed to get endpoint", status |-> 0, body |-> <<>>]
       IN  /\ cres' = [cres EXCEPT ![c] = [kind |-> "error", data |-> <<>>, err |-> err]]
           /\ rejection' = FirstRejection(c, err)
    /\ cpc' = [cpc EXCEPT ![c] = "rejected"]
    /\ UNCHANGED <<handler, nChunks, concurrency, jobpc, i, batch, wi, nBatches, calls,
                   posts, resp, batchOf, order, allAudioBlobs, writer, response>>
    /\ UNCHANGED <<tokVars, reqVars, textVars, extVars>>

\* The POST's response arrives: 2xx resolves with the payload, anything else throws.
GetAudioChunkResponse(c, r) ==
    /\ cpc[c] = "post"
    /\ resp' = [resp EXCEPT ![c] = r]
    /\ LET res == AudioChunkResult(r)
       IN  /\ cres' = [cres EXCEPT ![c] = res]
           /\ cpc' = [cpc EXCEPT ![c] = IF res.kind = "blob" THEN "resolved"
                                                              ELSE "rejected"]
           /\ rejection' = IF res.kind = "blob" THEN rejection
                                                ELSE FirstRejection(c, res.err)
           /\ order' = IF res.kind = "blob" /\ jobpc = "await" /\ c \in Range(batch)
                       THEN Append(order, c) ELSE order
    /\ UNCHANGED <<handler, nChunks, concurrency, jobpc, i, batch, wi, nBatches, calls,
                   posts, batchOf, allAudioBlobs, writer, response>>
    /\ UNCHANGED <<tokVars, reqVars, textVars, extVars>>

\* ------------------------------------------------------------------------
\* Promise.all over the batch
\* ------------------------------------------------------------------------
PromiseAllFulfilledAny(b) == b = <<>> \/ \E k \in 1 .. Len(b) : cpc[b[k]] = "resolved"

\* Variant of PromiseAllFulfilled: Promise.all of an empty array never settles.
PromiseAllFulfilledNonEmpty(b) == b # <<>> /\ \A k \in 1 .. Len(b) : cpc[b[k]] = "resolved"

\* Promise.all fulfils once every promise of the array has fulfilled.
PromiseAllFulfilled(b) == \A k \in 1 .. Len(b) : cpc[b[k]] = "resolved"

PromiseAllValuesByCompletion(b) == [k \in 1 .. Len(order) |-> cres[order[k]].data]

\* ... with the values in the order of the array, whatever order they arrived in.
PromiseAllValues(b) == [k \in 1 .. Len(b) |-> cres[b[k]].data]

\* Promise.all rejects as soon as one promise has rejected.
PromiseAllRejected == rejection # NoMsg

\* ------------------------------------------------------------------------
\* The batch loop of src/_worker.js
\* ------------------------------------------------------------------------
BatchAtPlusOne(k) == Slice(nChunks, k, k + concurrency + 1)

\* chunks.slice(i, i + concurrency)
BatchAt(k) == Slice(nChunks, k, k + concurrency)

\* One loop iteration up to its await: slice the batch, start its calls.
BatchStart ==
    /\ jobpc = "loop"
    /\ i < nChunks
    /\ nBatches < MaxIter
    /\ batch' = BatchAt(i)
    /\ nBatches' = nBatches + 1
    /\ StartCalls(batch', nBatches')
    /\ order' = <<>>
    /\ rejection' = NoMsg
    /\ jobpc' = "await"

\* getVoice (buffered), lines 164-166
GetVoiceBatchStart ==
    /\ handler = "getVoice"
    /\ BatchStart
    /\ UNCHANGED <<handler, nChunks, concurrency, i, wi, posts, resp, cres,
                   allAudioBlobs, writer, response>>
    /\ UNCHANGED <<tokVars, reqVars, textVars, extVars>>

\* Variant: the loop index is not advanced.
GetVoiceBatchDoneNoAdvance ==
    /\ handler = "getVoice"
    /\ jobpc = "await"
    /\ ~PromiseAllRejected
    /\ PromiseAllFulfilled(batch)
    /\ allAudioBlobs' = allAudioBlobs
    /\ i' = i
    /\ jobpc' = "loop"
    /\ UNCHANGED <<handler, nChunks, concurrency, batch, wi, nBatches, cpc, calls,
                   posts, resp, cres, batchOf, order, rejection, writer, response>>
    /\ UNCHANGED <<tokVars, reqVars, textVars, extVars>>

\* getVoice: the awaited batch fulfilled; allAudioBlobs.push(...audioBlobs); i += concurrency
GetVoiceBatchDone ==
    /\ handler = "getVoice"
    /\ jobpc = "await"
    /\ ~PromiseAllRejected
    /\ PromiseAllFulfilled(batch)
    /\ allAudioBlobs' = allAudioBlobs \o PromiseAllValues(batch)
    /\ i' = i + concurrency
    /\ jobpc' = "loop"
    /\ UNCHANGED <<handler, nChunks, concurrency, batch, wi, nBatches, cpc, calls,
                   posts, resp, cres, batchOf, order, rejection, writer, response>>
    /\ UNCHANGED <<tokVars, reqVars, textVars, extVars>>

GetVoiceFailPartial ==
    /\ handler = "getVoice"
    /\ jobpc = "await"
    /\ PromiseAllRejected
    /\ response' = AudioResponse(allAudioBlobs \o PromiseAllValuesByCompletion(batch))
    /\ jobpc' = "done"
    /\ UNCHANGED <<handler, nChunks, concurrency, i, batch, wi, nBatches, cpc, calls,
                   posts, resp, cres, batchOf, order, rejection, allAudioBlobs, writer>>
    /\ UNCHANGED <<tokVars, reqVars, textVars, extVars>>

\* getVoice: the awaited batch rejected; catch -> errorResponse(error.message, 500, ...)
GetVoiceFail ==
    /\ handler = "getVoice"
    /\ jobpc = "await"
    /\ PromiseAllRejected
    /\ response' = errorResponse(rejection, 500, "tts_generation_error")
    /\ jobpc' = "done"
    /\ UNCHANGED <<handler, nChunks, concurrency, i, batch, wi, nBatches, cpc, calls,
                   posts, resp, cres, batchOf, order, rejection, allAudioBlobs, writer>>
    /\ UNCHANGED <<tokVars, reqVars, textVars, extVars>>

\* getVoice: the loop ends; the blobs are concatenated into the response
GetVoiceFinish ==
    /\ handler = "getVoice"
    /\ jobpc = "loop"
    /\ ~(i < nChunks)
    /\ response' = AudioResponse(allAudioBlobs)
    /\ jobpc' = "done"
    /\ UNCHANGED <<handler, nChunks, concurrency, i, batch, wi, nBatches, cpc, calls,
                   posts, resp, cres, batchOf, order, rejection, allAudioBlobs, writer>>
    /\ UNCHANGED <<tokVars, reqVars, textVars, extVars>>

\* pipeChunksToStream (streaming), lines 142-144
PipeBatchStart ==
    /\ handler = "pipeChunksToStream"
    /\ BatchStart
    /\ UNCHANGED <<handler, nChunks, concurrency, i, wi, posts, resp, cres,
                   allAudioBlobs, writer, response>>
    /\ UNCHANGED <<tokVars, reqVars, textVars, extVars>>

\* pipeChunksToStream: the awaited batch fulfilled; the write loop begins
PipeBatchDone ==
    /\ handler = "pipeChunksToStream"
    /\ jobpc = "await"
    /\ ~PromiseAllRejected
    /\ PromiseAllFulfilled(batch)
    /\ IF batch = <<>>
       THEN /\ i' = i + concurrency
            /\ jobpc' = "loop"
            /\ wi' = wi
       ELSE /\ i' = i
            /\ jobpc' = "write"
            /\ wi' = 1
    /\ UNCHANGED <<handler, nChunks, concurrency, batch, nBatches, cpc, calls, posts,
                   resp, cres, batchOf, order, rejection, allAudioBlobs, writer,
                   response>>
    /\ UNCHANGED <<tokVars, reqVars, textVars, extVars>>

\* pipeChunksToStream: writer.write(new Uint8Array(await blob.arrayBuffer())) for the
\* next blob of audioBlobs; after the last one, i += concurrency
PipeWrite ==
    /\ handler = "pipeChunksToStream"
    /\ jobpc = "write"
    /\ writer' = WriterWrite(writer, PromiseAllValues(batch)[wi])
    /\ IF wi = Len(batch)
       THEN /\ i' = i + concurrency
            /\ jobpc' = "loop"
            /\ wi' = wi
       ELSE /\ i' = i
            /\ jobpc' = "write"
            /\ wi' = wi + 1
    /\ UNCHANGED <<handler, nChunks, concurrency, batch, nBatches, cpc, calls, posts,
                   resp, cres, batchOf, order, rejection, allAudioBlobs, response>>
    /\ UNCHANGED <<tokVars, reqVars, textVars, extVars>>

\* pipeChunksToStream: the awaited batch rejected; catch: writer.abort(error), rethrow;
\* finally: writer.close(); streamVoice's catch answers errorResponse(..., 500, ...)
PipeFail ==
    /\ handler = "pipeChunksToStream"
    /\ jobpc = "await"
    /\ PromiseAllRejected
    /\ writer' = WriterClose(WriterAbort(writer))
    /\ response' = errorResponse(rejection, 500, "tts_generation_error")
    /\ jobpc' = "done"
    /\ UNCHANGED <<handler, nChunks, concurrency, i, batch, wi, nBatches, cpc, calls,
                   posts, resp, cres, batchOf, order, rejection, allAudioBlobs>>
    /\ UNCHANGED <<tokVars, reqVars, textVars, extVars>>

\* pipeChunksToStream: the loop ends; finally: writer.close(); streamVoice returns the
\* readable side as the response
PipeFinish ==
    /\ handler = "pipeChunksToStream"
    /\ jobpc = "loop"
    /\ ~(i < nChunks)
    /\ writer' = WriterClose(writer)
    /\ response' = StreamResponse
    /\ jobpc' = "done"
    /\ UNCHANGED <<handler, nChunks, concurrency, i, batch, wi, nBatches, cpc, calls,
                   posts, resp, cres, batchOf, order, rejection, allAudioBlobs>>
    /\ UNCHANGED <<tokVars, reqVars, textVars, extVars>>

\* ------------------------------------------------------------------------
\* getVoice of the v1.2 worker: every chunk at once
\* ------------------------------------------------------------------------
\* chunks.map(chunk => getAudioChunk(chunk, ...)) over the whole chunk list
V12Start ==
    /\ handler = "getVoiceV12"
    /\ jobpc = "loop"
    /\ batch' = [n \in 1 .. nChunks |-> n - 1]
    /\ nBatches' = nBatches + 1
    /\ StartCalls(batch', nBatches')
    /\ order' = <<>>
    /\ rejection' = NoMsg
    /\ jobpc' = "await"
    /\ UNCHANGED <<handler, nChunks, concurrency, i, wi, posts, resp, cres,
                   allAudioBlobs, writer, response>>
    /\ UNCHANGED <<tokVars, reqVars, textVars, extVars>>

\* the Promise.all fulfilled: new Blob(audioChunks) is the response
V12Done ==
    /\ handler = "getVoiceV12"
    /\ jobpc = "await"
    /\ ~PromiseAllRejected
    /\ PromiseAllFulfilled(batch)
    /\ allAudioBlobs' = PromiseAllValues(batch)
    /\ response' = AudioResponse(allAudioBlobs')
    /\ jobpc' = "done"
    /\ UNCHANGED <<handler, nChunks, concurrency, i, batch, wi, nBatches, cpc, calls,
                   posts, resp, cres, batchOf, order, rejection, writer>>
    /\ UNCHANGED <<tokVars, reqVars, textVars, extVars>>

\* the Promise.all rejected: getVoice throws, handleRequest's catch answers
\* errorResponse(err.message, 500, "internal_server_error")
V12Fail ==
    /\ handler = "getVoiceV12"
    /\ jobpc = "await"
    /\ PromiseAllRejected
    /\ response' = errorResponse(rejection, 500, "internal_server_error")
    /\ jobpc' = "done"
    /\ UNCHANGED <<handler, nChunks, concurrency, i, batch, wi, nBatches, cpc, calls,
                   posts, resp, cres, batchOf, order, rejection, allAudioBlobs, writer>>
    /\ UNCHANGED <<tokVars, reqVars, textVars, extVars>>

\* ------------------------------------------------------------------------
\* getVoiceStream of the v1.2 worker: one chunk after another, each write awaited
\* ------------------------------------------------------------------------
\* for (const chunk of chunks): the next getAudioChunk call starts. The first
\* iteration runs up to its await inside the call that returns the Response.
StreamChunkStart ==
    /\ handler = "getVoiceStream"
    /\ jobpc = "loop"
    /\ i < nChunks
    /\ batch' = <<i>>
    /\ nBatches' = nBatches + 1
    /\ StartCalls(batch', nBatches')
    /\ order' = <<>>
    /\ rejection' = NoMsg
    /\ jobpc' = "await"
    /\ response' = StreamResponse
    /\ UNCHANGED <<handler, nChunks, concurrency, i, wi, posts, resp, cres,
                   allAudioBlobs, writer>>
    /\ UNCHANGED <<tokVars, reqVars, textVars, extVars>>

\* the call fulfilled: await writer.write(new Uint8Array(arrayBuffer)) begins
StreamChunkDone ==
    /\ handler = "getVoiceStream"
    /\ jobpc = "await"
    /\ ~PromiseAllRejected
    /\ PromiseAllFulfilled(batch)
    /\ writer' = WriterWrite(writer, cres[i].data)
    /\ jobpc' = "drain"
    /\ UNCHANGED <<handler, nChunks, concurrency, i, batch, wi, nBatches, cpc, calls,
                   posts, resp, cres, batchOf, order, rejection, allAudioBlobs,
                   response>>
    /\ UNCHANGED <<tokVars, reqVars, textVars, extVars>>

\* the awaited write resolves once the consumer has taken the chunk
StreamWriteDone ==
    /\ handler = "getVoiceStream"
    /\ jobpc = "drain"
    /\ writer.read = Len(writer.written)
    /\ i' = i + 1
    /\ jobpc' = "loop"
    /\ UNCHANGED <<handler, nChunks, concurrency, batch, wi, nBatches, cpc, calls,
                   posts, resp, cres, batchOf, order, rejection, allAudioBlobs, writer,
                   response>>
    /\ UNCHANGED <<tokVars, reqVars, textVars, extVars>>

\* the call rejected; catch: await writer.abort(error); finally: await writer.close()
StreamFail ==
    /\ handler = "getVoiceStream"
    /\ jobpc = "await"
    /\ PromiseAllRejected
    /\ writer' = WriterClose(WriterAbort(writer))
    /\ jobpc' = "done"
    /\ UNCHANGED <<handler, nChunks, concurrency, i, batch, wi, nBatches, cpc, calls,
                   posts, resp, cres, batchOf, order, rejection, allAudioBlobs,
                   response>>
    /\ UNCHANGED <<tokVars, reqVars, textVars, extVars>>

\* the loop ends; finally: await writer.close()
StreamFinish ==
    /\ handler = "getVoiceStream"
    /\ jobpc = "loop"
    /\ ~(i < nChunks)
    /\ writer' = WriterClose(writer)
    /\ response' = StreamResponse
    /\ jobpc' = "done"
    /\ UNCHANGED <<handler, nChunks, concurrency, i, batch, wi, nBatches, cpc, calls,
                   posts, resp, cres, batchOf, order, rejection, allAudioBlobs>>
    /\ UNCHANGED <<tokVars, reqVars, textVars, extVars>>

\* ------------------------------------------------------------------------
\* The consumer of a streamed response (the runtime sending the body to the client)
\* ------------------------------------------------------------------------
\* A chunk is read from new Response(readable): only a response that was returned
\* has a consumer, and an errored stream yields nothing more.
ClientRead ==
    /\ response.kind = "stream"
    /\ writer.state # "errored"
    /\ writer.read < Len(writer.written)
    /\ writer' = ReaderRead(writer)
    /\ UNCHANGED <<handler, nChunks, concurrency, jobpc, i, batch, wi, nBatches, cpc,
                   calls, posts, resp, cres, batchOf, order, rejection, allAudioBlobs,
                   response>>
    /\ UNCHANGED <<tokVars, reqVars, textVars, extVars>>

\* ------------------------------------------------------------------------
\* Specification of one synthesis job
\* ------------------------------------------------------------------------
TokenIdle ==
    /\ tokenImpl = "v12"
    /\ tokenInfo = [endpoint |-> Null, token |-> Null, expiredAt |-> 0]
    /\ now = 0
    /\ advances = 0
    /\ issued = 0
    /\ ncalls = 0
    /\ epc = <<>>
    /\ attempt = <<>>
    /\ wakeAt = <<>>
    /\ lastError = <<>>
    /\ ret = <<>>
    /\ hs = <<>>
    /\ fails = <<>>
    /\ won = <<>>
    /\ seenCached = <<>>
    /\ seenFresh = <<>>
    /\ seenEp = <<>>
    /\ cacheAtEnd = <<>>
    /\ lastOk = <<>>

\* generateUserIdFromDomain is exercised by SpecId only.
NoUrl == [valid |-> FALSE, hostname |-> <<>>]

IdIdle ==
    /\ requestUrl = NoUrl
    /\ otherUrl = NoUrl
    /\ userId = <<>>
    /\ otherUserId = <<>>

\* An Authorization header; present = FALSE when the request has none.
NoAuth == [present |-> FALSE, bearer |-> FALSE, key |-> ""]

\* a history item's metadata entry (meta_<id>); exists = FALSE when there is none
NoMeta == [exists |-> FALSE, password |-> "", type |-> ""]

EmptyKV == [meta |-> NoMeta, audio |-> FALSE, index |-> FALSE, shareAuth |-> FALSE]

NoRequest ==
    [route |-> "", auth |-> NoAuth, cookie |-> "", pwd |-> "", protected |-> FALSE,
     entitled |-> FALSE, shareValid |-> FALSE]

NoWebResponse ==
    [status |-> 0, serves |-> {}, setCookie |-> FALSE, reads |-> 0, writes |-> 0]

\* The router is exercised by SpecWeb only.
WebIdle ==
    /\ apiKey = ""
    /\ kv = EmptyKV
    /\ presented = FALSE
    /\ lastRequest = NoRequest
    /\ lastResponse = NoWebResponse
    /\ nRequests = 0

\* a value that is not given (undefined)
Undefined == "undefined"

\* a model id, the string prefix + rest
Model(prefix, rest) == [prefix |-> prefix, rest |-> rest]

\* The voice resolution is exercised by SpecVoice only.
VoiceIdle ==
    /\ reqModel = Model("", "")
    /\ reqVoice = Undefined
    /\ finalVoice = Undefined

\* The escaping is exercised by SpecXml only.
XmlIdle ==
    /\ chunkText = <<>>
    /\ escapedText = <<>>
    /\ xpc = "idle"

\* the result of no save and of no share request
NoSave == [size |-> 0, freed |-> <<>>, total |-> 0]
NoShareResult == [uuid |-> 0, content |-> <<>>, status |-> 0]

\* an empty KV namespace, nothing handled
StoreIdle ==
    /\ kvAudio = {}
    /\ kvMeta = <<>>
    /\ kvShare = <<>>
    /\ kvIndex = <<>>
    /\ nextId = 1
    /\ saved = <<>>
    /\ evicted = <<>>
    /\ deleted = {}
    /\ lastSave = NoSave
    /\ shareResult = NoShareResult
    /\ procs = <<>>
    /\ nOps = 0

ExtIdle == IdIdle /\ WebIdle /\ VoiceIdle /\ XmlIdle /\ StoreIdle

\* The text functions are not exercised by Spec and SpecToken.
TextIdle ==
    /\ text = <<>>
    /\ options = <<>>
    /\ maxChunkLength = 0
    /\ tpc = "idle"
    /\ cleanedText = <<>>
    /\ cleanedTwice = <<>>
    /\ textChunks = <<>>
    /\ textImpl = "worker"

ReqInit ==
    /\ reqInput \in RequestInputs
    /\ cleaned = 0

SchedInit ==
    /\ handler \in Handlers
    /\ nChunks = 0
    /\ concurrency \in ConcurrencyValues
    /\ jobpc = "request"
    /\ i = 0
    /\ batch = <<>>
    /\ wi = 0
    /\ nBatches = 0
    /\ cpc = [c \in ChunkIds |-> "idle"]
    /\ calls = [c \in ChunkIds |-> 0]
    /\ posts = [c \in ChunkIds |-> 0]
    /\ resp = [c \in ChunkIds |-> NoResp]
    /\ cres = [c \in ChunkIds |-> Pending]
    /\ batchOf = [c \in ChunkIds |-> 0]
    /\ order = <<>>
    /\ rejection = NoMsg
    /\ allAudioBlobs = <<>>
    /\ writer = NewWriter
    /\ response = NoResponse

Init == SchedInit /\ TokenIdle /\ ReqInit /\ TextIdle /\ ExtIdle

Next ==
    \/ HandleSpeechRequest
    \/ GetVoiceBatchStart
    \/ GetVoiceBatchDone
    \/ GetVoiceFail
    \/ GetVoiceFinish
    \/ PipeBatchStart
    \/ PipeBatchDone
    \/ PipeWrite
    \/ PipeFail
    \/ PipeFinish
    \/ V12Start
    \/ V12Done
    \/ V12Fail
    \/ StreamChunkStart
    \/ StreamChunkDone
    \/ StreamWriteDone
    \/ StreamFail
    \/ StreamFinish
    \/ ClientRead
    \/ \E c \in ChunkIds : GetAudioChunkPost(c)
    \/ \E c \in ChunkIds : GetAudioChunkNoEndpoint(c)
    \/ \E c \in ChunkIds : \E r \in UpstreamResponses(c) : GetAudioChunkResponse(c, r)

Spec == Init /\ [][Next]_vars

\* The same job under the scheduling the runtime provides: a continuation whose
\* awaited promise has settled is run, every getEndpoint call and every upstream POST
\* eventually returns, and the consumer of a returned stream keeps reading.
JobSteps ==
    \/ HandleSpeechRequest
    \/ GetVoiceBatchStart \/ GetVoiceBatchDone \/ GetVoiceFail \/ GetVoiceFinish
    \/ PipeBatchStart \/ PipeBatchDone \/ PipeWrite \/ PipeFail \/ PipeFinish
    \/ V12Start \/ V12Done \/ V12Fail
    \/ StreamChunkStart \/ StreamChunkDone \/ StreamWriteDone \/ StreamFail
    \/ StreamFinish

EndpointReturns ==
    \E c \in ChunkIds : GetAudioChunkPost(c) \/ GetAudioChunkNoEndpoint(c)

UpstreamReturns ==
    \E c \in ChunkIds : \E r \in UpstreamResponses(c) : GetAudioChunkResponse(c, r)

Fairness ==
    /\ WF_vars(JobSteps)
    /\ WF_vars(EndpointReturns)
    /\ WF_vars(UpstreamReturns)
    /\ WF_vars(ClientRead)

SpecLive == Init /\ [][Next]_vars /\ Fairness

\* ------------------------------------------------------------------------
\* Properties of the scheduler (specification Spec)
\* ------------------------------------------------------------------------
\* The bytes a job has emitted so far, as the sequence of the chunks they belong to.
InChunkOrder(bytes) ==
    \A a \in 1 .. Len(bytes) : \A b \in 1 .. Len(bytes) : a < b => bytes[a] < bytes[b]

CeilDiv(m, k) == (m + k - 1) \div k

Completed(c) == cpc[c] \in {"resolved", "rejected"}

\* C1: in both output modes of the batch scheduler the audio segments are emitted in
\* input-chunk order, whatever order the calls of a batch complete in: what getVoice
\* has collected and answers, and what pipeChunksToStream has written, holds the
\* segment of chunk i before that of chunk j whenever i < j.
C1_OutputInChunkOrder ==
    handler \in BatchHandlers =>
        /\ InChunkOrder(Flatten(allAudioBlobs))
        /\ InChunkOrder(Flatten(writer.written))
        /\ InChunkOrder(response.audio)

\* C1 witness: a streaming job has written two segments of a batch whose calls
\* completed in the opposite order.
C1_Witness ==
    /\ handler = "pipeChunksToStream"
    /\ Len(order) >= 2
    /\ order[1] > order[2]
    /\ Len(writer.written) >= 2
    /\ {order[1], order[2]} \subseteq Range(Flatten(writer.written))

\* C2: with integer concurrency K >= 1 the batch scheduler never has more than K calls
\* in flight, never starts more than ceil(M/K) batches, and a job in which no chunk
\* failed has run exactly ceil(M/K) batches when it ends.
C2_BatchCount ==
    (handler \in BatchHandlers /\ concurrency >= 1) =>
        /\ Cardinality(InFlight) <= concurrency
        /\ nBatches <= CeilDiv(nChunks, concurrency)
        /\ (jobpc = "done" /\ response.kind # "error"
                => nBatches = CeilDiv(nChunks, concurrency))

\* C2 witness: a job of 3 chunks with concurrency 2 ended without failure after 2 batches.
C2_Witness ==
    /\ handler \in BatchHandlers
    /\ concurrency = 2
    /\ nChunks = 3
    /\ jobpc = "done"
    /\ response.kind # "error"
    /\ nBatches = 2

\* C3: batches are strictly sequential: whenever a call of a later batch has been
\* issued, every call of every earlier batch has completed.
C3_BatchesSequential ==
    handler \in BatchHandlers =>
        \A c \in ChunkIds : \A d \in ChunkIds :
            (batchOf[c] >= 1 /\ batchOf[d] > batchOf[c]) => Completed(c)

\* C3 witness: a call of the second batch is in flight after the first batch completed.
C3_Witness ==
    /\ handler \in BatchHandlers
    /\ \E c \in ChunkIds : \E d \in ChunkIds :
          /\ batchOf[c] = 1
          /\ batchOf[d] = 2
          /\ d \in InFlight

\* C4 (as claimed): in the v1.2 buffered getVoice the number of calls in flight never
\* exceeds the request's concurrency limit.
C4_V12InFlightWithinLimit ==
    (handler = "getVoiceV12" /\ concurrency >= 1) => Cardinality(InFlight) <= concurrency

\* C4 witness: a v1.2 job whose request asked for concurrency 1 has three synthesis
\* calls in flight at once.
C4_Witness ==
    /\ handler = "getVoiceV12"
    /\ concurrency = 1
    /\ Cardinality(InFlight) = 3

\* C9: getAudioChunk is called at most once per chunk and job and issues at most one
\* POST, exactly one once it has an endpoint; a 2xx response resolves the call with the
\* raw payload, any other response rejects it with an error carrying the response's
\* status and body.
C9_OnePostPerChunk ==
    \A c \in ChunkIds :
        /\ calls[c] <= 1
        /\ posts[c] <= calls[c]
        /\ (cpc[c] \in {"post", "resolved"} => posts[c] = 1)
        /\ (cpc[c] = "resolved" =>
                /\ resp[c].status \in 200 .. 299
                /\ cres[c].kind = "blob"
                /\ cres[c].data = resp[c].body)
        /\ ((resp[c] # NoResp /\ resp[c].status \notin 200 .. 299) =>
                /\ cpc[c] = "rejected"
                /\ posts[c] = 1
                /\ cres[c].kind = "error"
                /\ cres[c].err.status = resp[c].status
                /\ cres[c].err.body = resp[c].body)

\* C9 witness: one chunk was answered 200 and another 500, each after its single POST.
C9_Witness ==
    \E c \in ChunkIds : \E d \in ChunkIds :
        /\ cpc[c] = "resolved" /\ resp[c].status = 200 /\ posts[c] = 1
        /\ cpc[d] = "rejected" /\ resp[d].status = 500 /\ posts[d] = 1

\* C10: in buffered mode a job one of whose chunk calls failed answers an error
\* response that holds no audio, also when other chunks succeeded.
C10_BufferedFailureNoAudio ==
    (handler \in BufferedHandlers /\ jobpc = "done"
        /\ \E c \in ChunkIds : cpc[c] = "rejected")
    => /\ response.kind = "error"
       /\ response.status = 500
       /\ response.audio = <<>>

\* C10 witness: a buffered job answered after a chunk of its second batch failed while
\* the chunk of its first batch had succeeded.
C10_Witness ==
    /\ handler \in BufferedHandlers
    /\ jobpc = "done"
    /\ \E c \in ChunkIds : \E d \in ChunkIds :
          /\ cpc[c] = "resolved" /\ batchOf[c] = 1
          /\ cpc[d] = "rejected" /\ batchOf[d] = 2
    /\ response.kind = "error"

\* ------------------------------------------------------------------------
\* Properties of the streaming mode (specification Spec)
\* ------------------------------------------------------------------------
Failed == \E c \in ChunkIds : cpc[c] = "rejected"

\* The chunks 0 .. n-1, as the bytes their audio consists of
ChunksBefore(n) == [k \in 1 .. n |-> k - 1]

\* C11: a streaming job leaves its stream untouched (neither aborted nor closed) until
\* it ends, and ends with the stream either errored by an abort, exactly when a chunk
\* failed, or closed, exactly when no chunk failed and every chunk was synthesized.
\* (After an abort the code also calls close(), which an errored stream rejects.)
C11_StreamAbortedOrClosed ==
    handler \in StreamingHandlers =>
        /\ (jobpc # "done" =>
                writer.state = "writable" /\ writer.aborts = 0 /\ writer.closes = 0)
        /\ (jobpc = "done" =>
                /\ writer.state \in {"errored", "closed"}
                /\ (writer.state = "errored" <=> Failed)
                /\ (writer.state = "errored" <=> writer.aborts = 1)
                /\ writer.aborts <= 1
                /\ (writer.state = "closed" =>
                        \A c \in 0 .. (nChunks - 1) : cpc[c] = "resolved"))

\* C11 witness: a v1.2 streaming job ended with its stream aborted after the consumer
\* had read a chunk.
C11_Witness ==
    /\ handler = "getVoiceStream"
    /\ jobpc = "done"
    /\ writer.state = "errored"
    /\ writer.aborts = 1
    /\ writer.read >= 1

C13_StreamReturnedBeforeLastBatch ==
    (/\ handler = "pipeChunksToStream"
     /\ concurrency >= 1
     /\ CeilDiv(nChunks, concurrency) >= 2
     /\ nBatches = CeilDiv(nChunks, concurrency)
     /\ \A c \in 0 .. (nChunks - 1) : Completed(c))
    => response.kind = "stream"

\* C13 witness: the calls of the last of two batches have completed, the audio of the
\* first batch was written, and no response has been returned yet.
C13_Witness ==
    /\ handler = "pipeChunksToStream"
    /\ concurrency >= 1
    /\ nBatches = 2
    /\ CeilDiv(nChunks, concurrency) = 2
    /\ \A c \in 0 .. (nChunks - 1) : cpc[c] = "resolved"
    /\ Len(writer.written) >= 1
    /\ response.kind = "none"
    /\ writer.read = 0

\* a synthesis call of the job has failed
SomeCallFailed == \E c \in ChunkIds : cpc[c] = "rejected"

\* the calls of c can still go on: the POST is issued once getEndpoint returns, and
\* the response of an issued POST is received
CallGoesOn(c) ==
    /\ cpc[c] = "endpoint" => ENABLED GetAudioChunkPost(c)
    /\ cpc[c] = "post" => ENABLED (\E r \in UpstreamResponses(c) : GetAudioChunkResponse(c, r))

\* a step of the batch handlers after a synthesis failure starts no batch and no call,
\* and issues POSTs only for calls of the batch that failed
C27_Step ==
    (handler \in BatchHandlers /\ SomeCallFailed) =>
        /\ nBatches' = nBatches
        /\ calls' = calls
        /\ batchOf' = batchOf
        /\ \A c \in ChunkIds : posts'[c] # posts[c] => batchOf[c] = nBatches
        /\ \A c \in ChunkIds : cpc[c] = "rejected" => batchOf[c] = nBatches

\* C27: a chunk failure fails the job immediately: after the first synthesis failure
\* of a job no synthesis call of any later batch is ever issued, while the calls of
\* the failing batch that are in flight are not cancelled (they go on, also after the
\* job has answered).
C27_FailureStopsLaterBatches ==
    /\ [][C27_Step]_vars
    /\ [](handler \in BatchHandlers /\ SomeCallFailed =>
            \A c \in InFlight : batchOf[c] = nBatches /\ CallGoesOn(c))

\* C27 witness: the first batch of a job of several batches failed, the job has
\* answered with the error, no later batch was started, and a POST of the failing
\* batch has been issued and is still in flight.
C27_Witness ==
    /\ handler \in BatchHandlers
    /\ jobpc = "done"
    /\ response.status = 500
    /\ nBatches = 1
    /\ nChunks > Len(batch)
    /\ \E c \in ChunkIds : \E d \in ChunkIds :
          /\ cpc[c] = "rejected" /\ cpc[d] = "post"
          /\ batchOf[c] = 1 /\ batchOf[d] = 1
    /\ \A c \in ChunkIds : batchOf[c] \in {0, 1}

\* C34 (as claimed): the batch loop terminates for every numeric concurrency a
\* request can supply, 0 and negative values included: each iteration advances the
\* loop index past at least one chunk.
C34_IterationAdvances ==
    [][(handler \in BatchHandlers /\ jobpc \in {"await", "write"} /\ jobpc' = "loop")
            => i' > i]_vars

\* C34 witness: with concurrency 0 the loop of a job that has chunks has run the
\* iterations the model allows, each with an empty batch, and its index is still 0:
\* no call was made and the loop condition still holds.
C34_Witness ==
    /\ handler \in BatchHandlers
    /\ concurrency = 0
    /\ nChunks > 0
    /\ nBatches = MaxIter
    /\ jobpc = "loop"
    /\ i = 0
    /\ i < nChunks
    /\ \A c \in ChunkIds : calls[c] = 0

\* C35 (as claimed): the stream writer is driven to a single terminal state: close is
\* never invoked on a writer on which abort has been invoked, and neither close nor
\* abort is invoked twice.
C35_SingleTerminalState ==
    /\ writer.aborts <= 1
    /\ writer.closes <= 1
    /\ writer.aborts >= 1 => writer.closes = 0

\* C35 witness: a batch of pipeChunksToStream failed; the catch block aborted the
\* writer and the finally block invoked close on the same writer.
C35_Witness ==
    /\ handler = "pipeChunksToStream"
    /\ jobpc = "done"
    /\ SomeCallFailed
    /\ writer.aborts = 1
    /\ writer.closes = 1
    /\ writer.state = "errored"

\* ------------------------------------------------------------------------
\* Properties of the request validation (specification Spec)
\* ------------------------------------------------------------------------
\* C19: a speech request whose input is missing or empty is answered with a 400
\* invalid_request_error and nothing of the pipeline runs for it: cleanText is not
\* called, no getAudioChunk call (and so no getEndpoint call and no POST) is made,
\* nothing is written, and the token cache is as it was; any other input is cleaned
\* and starts a job.
C19_EmptyInputRejected ==
    jobpc # "request" =>
        /\ (reqInput \in {"missing", "empty"} =>
                /\ jobpc = "rejected"
                /\ response = errorResponse(MissingInputMessage, 400, "invalid_request_error")
                /\ cleaned = 0
                /\ nBatches = 0
                /\ \A c \in ChunkIds : cpc[c] = "idle" /\ calls[c] = 0 /\ posts[c] = 0
                /\ writer = NewWriter
                /\ tokenInfo = [endpoint |-> Null, token |-> Null, expiredAt |-> 0])
        /\ (reqInput \notin {"missing", "empty"} => jobpc # "rejected" /\ cleaned = 1)

\* C19 witness: a request with an empty input was answered 400.
C19_Witness ==
    /\ reqInput = "empty"
    /\ jobpc = "rejected"
    /\ response.kind = "error"
    /\ response.status = 400
    /\ response.code = "invalid_request_error"
    /\ cleaned = 0

\* ------------------------------------------------------------------------
\* Termination (specification SpecLive)
\* ------------------------------------------------------------------------
AllSynthesized == \A c \in 0 .. (nChunks - 1) : cpc[c] = "resolved"

JobEnded == jobpc = "done" /\ (AllSynthesized \/ Failed)

Callers == 1 .. NumCallers

\* The `exp` claims (s) the upstream stamps on its tokens, and the idle time steps (ms).
Expiries == {300, 600}
AdvanceSteps == {400000}
FailureKinds == {"HTTP 500"}

\* null, for the token and for the endpoint object
NullToken == [id |-> 0, exp |-> 0]
NullData == [r |-> "", t |-> NullToken]

\* let tokenInfo = { endpoint: null, token: null, expiredAt: null }
\* (null counts as 0 in `now < expiredAt - margin`)
EmptyCache == [endpoint |-> NullData, token |-> NullToken, expiredAt |-> 0]

\* The handshake's JSON body {r, t}: a region and a JWT whose payload holds `exp`.
HandshakeData(id, exp) == [r |-> "region", t |-> [id |-> id, exp |-> exp]]

\* JSON.parse(atob(data.t.split(".")[1])).exp
JwtExp(t) == t.exp

Truthy(t) == t # NullToken

CacheValidNoMargin(ti, t) == Truthy(ti.token) /\ t < ti.expiredAt * 1000

\* v1.2: tokenInfo.token && now < tokenInfo.expiredAt - TOKEN_REFRESH_BEFORE_EXPIRY
\* (t in ms, now = t / 1000)
CacheValidV12(ti, t) ==
    Truthy(ti.token) /\ t < (ti.expiredAt - TOKEN_REFRESH_BEFORE_EXPIRY) * 1000

\* src/_worker.js: tokenInfo.token && tokenInfo.expiredAt && now < expiredAt - margin
CacheValidWorker(ti, t) ==
    /\ Truthy(ti.token)
    /\ ti.expiredAt # 0
    /\ t < (ti.expiredAt - TOKEN_REFRESH_BEFORE_EXPIRY) * 1000

StoreTokenUnlessValid(data) ==
    IF CacheValidV12(tokenInfo, now) THEN tokenInfo
    ELSE [endpoint |-> data, token |-> data.t, expiredAt |-> JwtExp(data.t)]

\* Variant of StoreToken: the fields are written one by one and the expiry of the
\* previous token is still in place.
StoreTokenTorn(data) ==
    [endpoint |-> data, token |-> data.t,
     expiredAt |-> IF Truthy(tokenInfo.token) THEN tokenInfo.expiredAt ELSE JwtExp(data.t)]

\* tokenInfo = { endpoint: data, token: data.t, expiredAt: decodedJwt.exp }
StoreToken(data) == [endpoint |-> data, token |-> data.t, expiredAt |-> JwtExp(data.t)]

BackoffFlat(a) == 1000

\* setTimeout(resolve, 1000 * attempt)
Backoff(a) == 1000 * a

HasFallbackUnexpired(ti) == Truthy(ti.token) /\ now < ti.expiredAt * 1000

\* Variant of CacheAfterFailure: a failed acquisition drops the cached token.
CacheClearedAfterFailure(ti) == EmptyCache

\* catch (error) { ... }: no attempt succeeded and nothing is assigned to tokenInfo
CacheAfterFailure(ti) == ti

\* if (tokenInfo.token) return tokenInfo.endpoint
HasFallback(ti) == Truthy(ti.token)

\* "A token is cached and now < expiry - 300 s" (t in ms, expiry in s), recorded on
\* entry for the properties below; the code's own test is CacheValidV12 / CacheValidWorker.
Fresh(ti, t) == ti.token # NullToken /\ t < (ti.expiredAt - 300) * 1000

\* A call begins: per-call bookkeeping
EnterCall(c) ==
    /\ epc[c] \in {"idle", "returned", "thrown"}
    /\ ncalls < MaxCalls
    /\ ncalls' = ncalls + 1
    /\ seenCached' = [seenCached EXCEPT ![c] = tokenInfo.token # NullToken]
    /\ seenFresh' = [seenFresh EXCEPT ![c] = Fresh(tokenInfo, now)]
    /\ seenEp' = [seenEp EXCEPT ![c] = IF Fresh(tokenInfo, now) THEN tokenInfo.endpoint
                                                               ELSE NullData]
    /\ fails' = [fails EXCEPT ![c] = 0]
    /\ won' = [won EXCEPT ![c] = NullData]
    /\ lastError' = [lastError EXCEPT ![c] = ""]
    /\ wakeAt' = [wakeAt EXCEPT ![c] = 0]
    /\ cacheAtEnd' = [cacheAtEnd EXCEPT ![c] = EmptyCache]

\* v1.2 getEndpoint, entry: a valid cached token is returned at once; otherwise the
\* retry loop starts and attempt 1 sends its handshake request
GetEndpointCall(c) ==
    /\ tokenImpl = "v12"
    /\ EnterCall(c)
    /\ IF CacheValidV12(tokenInfo, now)
       THEN /\ epc' = [epc EXCEPT ![c] = "returned"]
            /\ ret' = [ret EXCEPT ![c] = tokenInfo.endpoint]
            /\ attempt' = [attempt EXCEPT ![c] = 0]
            /\ hs' = [hs EXCEPT ![c] = 0]
       ELSE /\ epc' = [epc EXCEPT ![c] = "fetch"]
            /\ ret' = [ret EXCEPT ![c] = NullData]
            /\ attempt' = [attempt EXCEPT ![c] = 1]
            /\ hs' = [hs EXCEPT ![c] = 1]
    /\ UNCHANGED <<tokenImpl, tokenInfo, now, advances, issued, lastOk>>
    /\ UNCHANGED <<schedVars, reqVars, textVars, extVars>>

\* src/_worker.js getEndpoint, entry
WorkerGetEndpointCall(c) ==
    /\ tokenImpl = "worker"
    /\ EnterCall(c)
    /\ IF CacheValidWorker(tokenInfo, now)
       THEN /\ epc' = [epc EXCEPT ![c] = "returned"]
            /\ ret' = [ret EXCEPT ![c] = tokenInfo.endpoint]
            /\ attempt' = [attempt EXCEPT ![c] = 0]
            /\ hs' = [hs EXCEPT ![c] = 0]
       ELSE /\ epc' = [epc EXCEPT ![c] = "fetch"]
            /\ ret' = [ret EXCEPT ![c] = NullData]
            /\ attempt' = [attempt EXCEPT ![c] = 1]
            /\ hs' = [hs EXCEPT ![c] = 1]
    /\ UNCHANGED <<tokenImpl, tokenInfo, now, advances, issued, lastOk>>
    /\ UNCHANGED <<schedVars, reqVars, textVars, extVars>>

\* A handshake succeeds (2xx, well-formed body): the cache is overwritten and the
\* call returns the data it received. The upstream stamps the token's exp.
HandshakeOk(c, exp) ==
    /\ epc[c] = "fetch"
    /\ issued' = issued + 1
    /\ LET data == HandshakeData(issued + 1, exp)
       IN  /\ tokenInfo' = StoreToken(data)
           /\ ret' = [ret EXCEPT ![c] = data]
           /\ won' = [won EXCEPT ![c] = data]
           /\ lastOk' = data
    /\ epc' = [epc EXCEPT ![c] = "returned"]
    /\ UNCHANGED <<tokenImpl, now, advances, ncalls, attempt, wakeAt, lastError, hs,
                   fails, seenCached, seenFresh, seenEp, cacheAtEnd>>
    /\ UNCHANGED <<schedVars, reqVars, textVars, extVars>>

\* v1.2: an attempt fails (transport error, non-2xx, or a body that does not decode).
\* Attempts 1 and 2 are followed by a timer; after attempt 3 the loop ends and the
\* cached token, if any, is the fallback.
HandshakeFail(c, why) ==
    /\ tokenImpl = "v12"
    /\ epc[c] = "fetch"
    /\ lastError' = [lastError EXCEPT ![c] = why]
    /\ fails' = [fails EXCEPT ![c] = @ + 1]
    /\ IF attempt[c] < 3
       THEN /\ epc' = [epc EXCEPT ![c] = "sleep"]
            /\ wakeAt' = [wakeAt EXCEPT ![c] = now + Backoff(attempt[c])]
            /\ ret' = ret
            /\ cacheAtEnd' = cacheAtEnd
       ELSE /\ wakeAt' = wakeAt
            /\ cacheAtEnd' = [cacheAtEnd EXCEPT ![c] = tokenInfo]
            /\ IF HasFallback(tokenInfo)
               THEN /\ epc' = [epc EXCEPT ![c] = "returned"]
                    /\ ret' = [ret EXCEPT ![c] = tokenInfo.endpoint]
               ELSE /\ epc' = [epc EXCEPT ![c] = "thrown"]
                    /\ ret' = ret
    /\ tokenInfo' = CacheAfterFailure(tokenInfo)
    /\ UNCHANGED <<tokenImpl, now, advances, issued, ncalls, attempt, hs, won,
                   seenCached, seenFresh, seenEp, lastOk>>
    /\ UNCHANGED <<schedVars, reqVars, textVars, extVars>>

\* v1.2: the backoff timer fires (at its deadline, or later if time has moved on);
\* attempt++ and the next handshake request is sent
TimerFires(c) ==
    /\ tokenImpl = "v12"
    /\ epc[c] = "sleep"
    /\ now' = Max(now, wakeAt[c])
    /\ attempt' = [attempt EXCEPT ![c] = @ + 1]
    /\ hs' = [hs EXCEPT ![c] = @ + 1]
    /\ wakeAt' = [wakeAt EXCEPT ![c] = 0]
    /\ epc' = [epc EXCEPT ![c] = "fetch"]
    /\ UNCHANGED <<tokenImpl, tokenInfo, advances, issued, ncalls, lastError,
                   ret, fails, won, seenCached, seenFresh, seenEp, cacheAtEnd, lastOk>>
    /\ UNCHANGED <<schedVars, reqVars, textVars, extVars>>

\* src/_worker.js: the single attempt fails; catch: cached token or rethrow
WorkerHandshakeFail(c, why) ==
    /\ tokenImpl = "worker"
    /\ epc[c] = "fetch"
    /\ lastError' = [lastError EXCEPT ![c] = why]
    /\ fails' = [fails EXCEPT ![c] = @ + 1]
    /\ cacheAtEnd' = [cacheAtEnd EXCEPT ![c] = tokenInfo]
    /\ IF HasFallback(tokenInfo)
       THEN /\ epc' = [epc EXCEPT ![c] = "returned"]
            /\ ret' = [ret EXCEPT ![c] = tokenInfo.endpoint]
       ELSE /\ epc' = [epc EXCEPT ![c] = "thrown"]
            /\ ret' = ret
    /\ tokenInfo' = CacheAfterFailure(tokenInfo)
    /\ UNCHANGED <<tokenImpl, now, advances, issued, ncalls, attempt, wakeAt,
                   hs, won, seenCached, seenFresh, seenEp, lastOk>>
    /\ UNCHANGED <<schedVars, reqVars, textVars, extVars>>

\* Time passes while nothing runs.
Advance(step) ==
    /\ advances < MaxAdvance
    /\ advances' = advances + 1
    /\ now' = now + step
    /\ UNCHANGED <<tokenImpl, tokenInfo, issued, ncalls, epc, attempt, wakeAt, lastError,
                   ret, hs, fails, won, seenCached, seenFresh, seenEp, cacheAtEnd, lastOk>>
    /\ UNCHANGED <<schedVars, reqVars, textVars, extVars>>

\* ------------------------------------------------------------------------
\* Specification of the token manager
\* ------------------------------------------------------------------------
SchedIdle ==
    /\ handler = "getVoice"
    /\ nChunks = 0
    /\ concurrency = DEFAULT_CONCURRENCY
    /\ jobpc = "loop"
    /\ i = 0
    /\ batch = <<>>
    /\ wi = 0
    /\ nBatches = 0
    /\ cpc = [c \in ChunkIds |-> "idle"]
    /\ calls = [c \in ChunkIds |-> 0]
    /\ posts = [c \in ChunkIds |-> 0]
    /\ resp = [c \in ChunkIds |-> NoResp]
    /\ cres = [c \in ChunkIds |-> Pending]
    /\ batchOf = [c \in ChunkIds |-> 0]
    /\ order = <<>>
    /\ rejection = NoMsg
    /\ allAudioBlobs = <<>>
    /\ writer = NewWriter
    /\ response = NoResponse

TokenInit ==
    /\ tokenImpl \in {"v12", "worker"}
    /\ tokenInfo = EmptyCache
    /\ now = 0
    /\ advances = 0
    /\ issued = 0
    /\ ncalls = 0
    /\ epc = [c \in Callers |-> "idle"]
    /\ attempt = [c \in Callers |-> 0]
    /\ wakeAt = [c \in Callers |-> 0]
    /\ lastError = [c \in Callers |-> ""]
    /\ ret = [c \in Callers |-> NullData]
    /\ hs = [c \in Callers |-> 0]
    /\ fails = [c \in Callers |-> 0]
    /\ won = [c \in Callers |-> NullData]
    /\ seenCached = [c \in Callers |-> FALSE]
    /\ seenFresh = [c \in Callers |-> FALSE]
    /\ seenEp = [c \in Callers |-> NullData]
    /\ cacheAtEnd = [c \in Callers |-> EmptyCache]
    /\ lastOk = NullData

ReqIdle ==
    /\ reqInput = "text"
    /\ cleaned = 0

InitToken == SchedIdle /\ TokenInit /\ ReqIdle /\ TextIdle /\ ExtIdle

NextToken ==
    \/ \E c \in Callers : GetEndpointCall(c)
    \/ \E c \in Callers : WorkerGetEndpointCall(c)
    \/ \E c \in Callers : \E exp \in Expiries : HandshakeOk(c, exp)
    \/ \E c \in Callers : \E why \in FailureKinds : HandshakeFail(c, why)
    \/ \E c \in Callers : TimerFires(c)
    \/ \E c \in Callers : \E why \in FailureKinds : WorkerHandshakeFail(c, why)
    \/ \E step \in AdvanceSteps : Advance(step)

SpecToken == InitToken /\ [][NextToken]_vars

\* ------------------------------------------------------------------------
\* Properties of the token manager
\* ------------------------------------------------------------------------
Entered(c) == epc[c] # "idle"

\* C5: a getEndpoint call sends no handshake request exactly when, on entry, a token
\* was cached and now < expiry - 300 s; in that case it has returned the cached
\* endpoint, and in every other case it has sent a handshake request.
C5_CachedIffFresh ==
    \A c \in Callers :
        Entered(c) =>
            /\ (seenFresh[c] <=> hs[c] = 0)
            /\ (seenFresh[c] => /\ epc[c] = "returned"
                                /\ ret[c] # NullData
                                /\ ret[c] = seenEp[c])
            /\ (~seenFresh[c] => hs[c] >= 1)

\* C5 witness: the token expiring at 600 s was served from the cache by a call made
\* at time 0 (600 s before expiry), and a call made at 400 s (200 s before expiry)
\* has sent a handshake request although that token is still cached and unexpired.
C5_Witness ==
    /\ now = 400000
    /\ tokenInfo.expiredAt = 600
    /\ \E c \in Callers : \E d \in Callers :
          /\ epc[c] = "returned" /\ seenFresh[c] /\ hs[c] = 0
          /\ ret[c] = tokenInfo.endpoint
          /\ epc[d] = "fetch" /\ seenCached[d] /\ ~seenFresh[d] /\ hs[d] = 1

\* C6: a v1.2 getEndpoint call has thrown only if its three attempts all failed and
\* no token was cached when the last one failed; a call whose three attempts failed
\* while a token was cached, expired or not, has returned that cached endpoint.
C6_FailsOnlyWithoutFallback ==
    tokenImpl = "v12" =>
        \A c \in Callers :
            /\ (epc[c] = "thrown" =>
                    /\ fails[c] = 3
                    /\ hs[c] = 3
                    /\ won[c] = NullData
                    /\ cacheAtEnd[c].token = NullToken)
            /\ ((fails[c] = 3 /\ cacheAtEnd[c].token # NullToken) =>
                    /\ epc[c] = "returned"
                    /\ ret[c] = cacheAtEnd[c].endpoint)
            /\ ((fails[c] = 3 /\ cacheAtEnd[c].token = NullToken) => epc[c] = "thrown")

\* C6 witness: a v1.2 call whose three attempts failed has returned the cached
\* endpoint although its token had already expired.
C6_Witness ==
    /\ tokenImpl = "v12"
    /\ \E c \in Callers :
          /\ epc[c] = "returned"
          /\ fails[c] = 3
          /\ cacheAtEnd[c].token # NullToken
          /\ now >= cacheAtEnd[c].expiredAt * 1000
          /\ ret[c] = cacheAtEnd[c].endpoint

C7_Step(c) ==
    /\ hs'[c] <= 3
    /\ (hs'[c] # hs[c] =>
            \/ epc[c] \in {"idle", "returned", "thrown"} /\ hs'[c] \in {0, 1}
            \/ /\ epc[c] = "sleep"
               /\ hs'[c] = hs[c] + 1
               /\ fails[c] = hs[c]
               /\ won[c] = NullData
               /\ now' >= wakeAt[c])
    /\ ((epc[c] = "fetch" /\ fails'[c] = fails[c] + 1 /\ hs[c] < 3) =>
            /\ epc'[c] = "sleep"
            /\ wakeAt'[c] = now + 1000 * hs[c])
    /\ ((epc[c] = "fetch" /\ fails'[c] = fails[c] + 1 /\ hs[c] = 3) =>
            epc'[c] \in {"returned", "thrown"})
    /\ ((epc[c] = "fetch" /\ won'[c] # NullData) =>
            /\ epc'[c] = "returned"
            /\ ret'[c] = won'[c]
            /\ hs'[c] = hs[c])

\* C7: in every step of a v1.2 getEndpoint call, the call has sent at most 3
\* handshake requests; a further request is sent only after a failed attempt and not
\* before attempt x 1000 ms have passed since that failure; a success ends the call
\* with no further request; the third failure ends the call without a wait.
C7_RetriesAndBackoff ==
    [][tokenImpl = "v12" => \A c \in Callers : C7_Step(c)]_vars

\* C7 witness: a v1.2 call succeeded on its third attempt, sent 1000 ms + 2000 ms
\* after it began at time 0.
C7_Witness ==
    /\ tokenImpl = "v12"
    /\ now = 3000
    /\ \E c \in Callers :
          /\ epc[c] = "returned"
          /\ hs[c] = 3
          /\ fails[c] = 2
          /\ won[c] # NullData
          /\ ret[c] = won[c]

\* C8: calls that find no fresh token each send their own handshake request, also
\* while another call's handshake is in flight; the cache always holds the data of the
\* successful response processed last; and every call that has returned holds a token
\* issued by a successful handshake, its own if it had one.
C8_LastWriterWins ==
    /\ \A c \in Callers : (Entered(c) /\ ~seenFresh[c]) => hs[c] >= 1
    /\ (lastOk = NullData => tokenInfo = EmptyCache)
    /\ (lastOk # NullData =>
            /\ tokenInfo.endpoint = lastOk
            /\ tokenInfo.token = lastOk.t
            /\ tokenInfo.expiredAt = lastOk.t.exp
            /\ lastOk.t.id = issued)
    /\ \A c \in Callers :
          epc[c] = "returned" =>
              /\ ret[c].t.id \in 1 .. issued
              /\ \E exp \in Expiries : ret[c] = HandshakeData(ret[c].t.id, exp)
              /\ (won[c] # NullData => ret[c] = won[c])

\* C8 witness: two calls both began while the cache was empty, both handshakes
\* succeeded, each call returned its own token, and the cache holds the token of the
\* response processed second.
C8_Witness ==
    \E c \in Callers : \E d \in Callers :
        /\ c # d
        /\ epc[c] = "returned" /\ epc[d] = "returned"
        /\ ~seenCached[c] /\ ~seenCached[d]
        /\ won[c].t.id = 1 /\ won[d].t.id = 2
        /\ ret[c] = won[c] /\ ret[d] = won[d]
        /\ tokenInfo.token = won[d].t
        /\ tokenInfo.token # won[c].t

\* C26: the token cache is replaced atomically: in every reachable state tokenInfo is
\* either the initial empty value or holds the endpoint, the token and the expiry of
\* one and the same successful handshake response, and the cached expiry is the exp
\* claim of the cached token.
C26_CacheReplacedAtomically ==
    \/ tokenInfo = EmptyCache
    \/ \E n \in 1 .. issued : \E exp \in Expiries :
          /\ tokenInfo.endpoint = HandshakeData(n, exp)
          /\ tokenInfo.token = HandshakeData(n, exp).t
          /\ tokenInfo.expiredAt = exp
          /\ tokenInfo.expiredAt = JwtExp(tokenInfo.token)

\* C26 witness: a second handshake with another expiry has replaced a cached token
\* while a call was between its cache test and its own response, and the cache holds
\* the second response whole.
C26_Witness ==
    \E c \in Callers : \E d \in Callers :
        /\ c # d
        /\ won[c] = HandshakeData(1, 300)
        /\ won[d] = HandshakeData(2, 600)
        /\ tokenInfo.endpoint = won[d]
        /\ tokenInfo.token = won[d].t
        /\ tokenInfo.expiredAt = 600

\* a step in which a handshake attempt of some call fails
AttemptFails == \E c \in Callers : fails'[c] # fails[c]

\* a step in which a handshake of some call succeeds and its response is stored
AttemptSucceeds ==
    \E c \in Callers :
        /\ epc[c] = "fetch"
        /\ issued' = issued + 1
        /\ won'[c].t.id = issued'
        /\ tokenInfo' = StoreToken(won'[c])

\* a call that has ended without a successful handshake of its own
EndedWithoutSuccess(c) ==
    epc[c] \in {"returned", "thrown"} /\ fails[c] >= 1 /\ won[c] = NullData

\* C33: a failed token acquisition leaves the cache unchanged: a failing attempt
\* writes nothing to tokenInfo, whether the call goes on, returns the stale fallback
\* or fails; tokenInfo changes only in the step that stores the response of a
\* successful handshake (that of a concurrent call, if any).
C33_FailureLeavesCache ==
    /\ [][AttemptFails => tokenInfo' = tokenInfo]_vars
    /\ [][tokenInfo' # tokenInfo => AttemptSucceeds]_vars
    /\ [](\A c \in Callers :
            (EndedWithoutSuccess(c) /\ lastOk = NullData) => tokenInfo = EmptyCache)

\* C33 witness: the three attempts of a v1.2 call failed while an expired token was
\* cached; the call returned the cached endpoint and the cache is what it was.
C33_Witness ==
    \E c \in Callers :
        /\ tokenImpl = "v12"
        /\ EndedWithoutSuccess(c)
        /\ fails[c] = 3
        /\ epc[c] = "returned"
        /\ tokenInfo # EmptyCache
        /\ ret[c] = tokenInfo.endpoint
        /\ cacheAtEnd[c] = tokenInfo
        /\ tokenInfo.endpoint = lastOk

\* ========================================================================
\* Chunking: smartChunkText (src/_worker.js) and the fixed slices of v1.2
\* ========================================================================
\* A text is a sequence of characters.
\* [.?!,;:\n\r] and their full-width forms: the characters split() cuts at
\* (a character outside ASCII is written as its code point)
Delimiters == {".", "?", "!", ",", ";", ":", "\n", "\r",
               "U+3002", "U+FF1F", "U+FF01", "U+FF0C", "U+FF1B", "U+FF1A"}

\* the characters String.prototype.trim removes and \s matches
WhiteSpace == {" ", "\t", "\n", "\r"}

IsDelimiter(ch) == ch \in Delimiters
IsSpace(ch) == ch \in WhiteSpace

\* String.prototype.trim
Trim(s) ==
    IF \A k \in 1 .. Len(s) : IsSpace(s[k])
    THEN <<>>
    ELSE LET a == CHOOSE k \in 1 .. Len(s) :
                      ~IsSpace(s[k]) /\ \A m \in 1 .. (k - 1) : IsSpace(s[m])
             b == CHOOSE k \in 1 .. Len(s) :
                      ~IsSpace(s[k]) /\ \A m \in (k + 1) .. Len(s) : IsSpace(s[m])
         IN  SubSeq(s, a, b)

\* The last index of the maximal run of delimiters, or of other characters, that
\* starts at k
RunEnd(s, k) ==
    CHOOSE j \in k .. Len(s) :
        /\ \A m \in k .. j : IsDelimiter(s[m]) = IsDelimiter(s[k])
        /\ (j = Len(s) \/ IsDelimiter(s[j + 1]) # IsDelimiter(s[k]))

RECURSIVE Runs(_, _)
Runs(s, k) ==
    IF k > Len(s) THEN <<>>
    ELSE LET e == RunEnd(s, k) IN <<SubSeq(s, k, e)>> \o Runs(s, e + 1)

\* Variant: split without the capturing group, the delimiters are not kept.
SplitDroppingDelimiters(s) ==
    LET r == Runs(s, 1)
        keep == SelectSeq(r, LAMBDA part : ~IsDelimiter(part[1]))
    IN  (IF s # <<>> /\ IsDelimiter(s[1]) THEN << <<>> >> ELSE <<>>)
        \o keep
        \o (IF s # <<>> /\ IsDelimiter(s[Len(s)]) THEN << <<>> >> ELSE <<>>)

\* text.split(/([.?!,;:\n...]+)/g): the pieces between the delimiter runs and, the
\* group being a capturing one, the delimiter runs themselves; a text that starts or
\* ends with a delimiter yields an empty first or last piece.
Split(s) ==
    IF s = <<>> THEN << <<>> >>
    ELSE (IF IsDelimiter(s[1]) THEN << <<>> >> ELSE <<>>)
         \o Runs(s, 1)
         \o (IF IsDelimiter(s[Len(s)]) THEN << <<>> >> ELSE <<>>)

\* if (currentChunk.trim()) chunks.push(currentChunk.trim())
PushTrimmed(chunks, currentChunk) ==
    IF Trim(currentChunk) # <<>> THEN Append(chunks, Trim(currentChunk)) ELSE chunks

RECURSIVE ChunkLoop(_, _, _, _, _)
\* for (const part of sentences) { ... }, then the push after the loop
ChunkLoop(sentences, k, currentChunk, chunks, maxLen) ==
    IF k > Len(sentences)
    THEN PushTrimmed(chunks, currentChunk)
    ELSE LET part == sentences[k]
         IN  IF Len(currentChunk) + Len(part) <= maxLen
             THEN ChunkLoop(sentences, k + 1, currentChunk \o part, chunks, maxLen)
             ELSE ChunkLoop(sentences, k + 1, part,
                            PushTrimmed(chunks, currentChunk), maxLen)

\* for (let i = 0; i < text.length; i += size) chunks.push(text.substring(i, i + size))
FixedSlices(s, size) ==
    [k \in 1 .. CeilDiv(Len(s), size) |->
        SubSeq(s, (k - 1) * size + 1, Min(k * size, Len(s)))]

\* smartChunkText(text, maxChunkLength), for maxChunkLength >= 1
smartChunkText(s, maxLen) ==
    IF s = <<>> THEN <<>>
    ELSE LET chunks == ChunkLoop(Split(s), 1, <<>>, <<>>, maxLen)
             all == IF Len(chunks) = 0 /\ Len(s) > 0 THEN FixedSlices(s, maxLen)
                                                     ELSE chunks
         IN  SelectSeq(all, LAMBDA c : Len(c) > 0)

\* const maxChunkSize = 2000 (v1.2 getVoice / getVoiceStream)
maxChunkSize == 2000

\* The texts given to the chunkers: every text over a small alphabet, and one long
\* text without any delimiter.
ChunkAlphabet == {"a", " ", ".", "\n"}

TextsOver(alphabet, maxLen) ==
    UNION {[1 .. n -> alphabet] : n \in 0 .. maxLen}

LongText == [k \in 1 .. 3100 |-> "a"]

\* smartChunkText is applied to the text
ApplySmartChunkText ==
    /\ tpc = "input"
    /\ textImpl = "worker"
    /\ textChunks' = smartChunkText(text, maxChunkLength)
    /\ tpc' = "chunked"
    /\ UNCHANGED <<text, options, maxChunkLength, cleanedText, cleanedTwice, textImpl>>
    /\ UNCHANGED <<schedVars, tokVars, reqVars, extVars>>

\* the v1.2 getVoice cuts the text into slices of maxChunkSize characters
ApplyFixedSlices ==
    /\ tpc = "input"
    /\ textImpl = "v12"
    /\ textChunks' = FixedSlices(text, maxChunkSize)
    /\ tpc' = "chunked"
    /\ UNCHANGED <<text, options, maxChunkLength, cleanedText, cleanedTwice, textImpl>>
    /\ UNCHANGED <<schedVars, tokVars, reqVars, extVars>>

ChunkInit ==
    /\ \/ text \in TextsOver(ChunkAlphabet, MaxTextLen) /\ maxChunkLength \in 1 .. MaxChunkSize
       \/ text = LongText /\ maxChunkLength = 2000
    /\ textImpl \in {"worker", "v12"}
    /\ options = <<>>
    /\ tpc = "input"
    /\ cleanedText = <<>>
    /\ cleanedTwice = <<>>
    /\ textChunks = <<>>

InitChunk == SchedIdle /\ TokenIdle /\ ReqIdle /\ ChunkInit /\ ExtIdle

NextChunk == ApplySmartChunkText \/ ApplyFixedSlices

SpecChunk == InitChunk /\ [][NextChunk]_vars

\* ------------------------------------------------------------------------
\* Properties of the chunkers (specification SpecChunk)
\* ------------------------------------------------------------------------
HasDelimiter(s) == \E k \in 1 .. Len(s) : IsDelimiter(s[k])

\* C14 (as claimed): every chunk smartChunkText returns is at most maxChunkLength long.
C14_ChunksWithinMaxLen ==
    (tpc = "chunked" /\ textImpl = "worker") =>
        \A k \in 1 .. Len(textChunks) : Len(textChunks[k]) <= maxChunkLength

\* C14 witness: smartChunkText returned a chunk longer than maxChunkLength.
C14_Witness ==
    /\ tpc = "chunked"
    /\ textImpl = "worker"
    /\ \E k \in 1 .. Len(textChunks) : Len(textChunks[k]) > maxChunkLength

\* C15 (as claimed): for a text longer than maxChunkLength that holds no delimiter,
\* smartChunkText returns the ceil(L / maxChunkLength) slices of maxChunkLength
\* characters; for L = 3100 and maxChunkLength = 2000, two chunks of 2000 and 1100.
C15_FixedWidthFallback ==
    (/\ tpc = "chunked"
     /\ textImpl = "worker"
     /\ Len(text) > maxChunkLength
     /\ ~HasDelimiter(text))
    => /\ Len(textChunks) = CeilDiv(Len(text), maxChunkLength)
       /\ textChunks = FixedSlices(text, maxChunkLength)
       /\ (text = LongText => <<Len(textChunks[1]), Len(textChunks[2])>> = <<2000, 1100>>)

\* C15 witness: for the text of 3100 characters without a delimiter and
\* maxChunkLength = 2000, smartChunkText returned one chunk of 3100 characters.
C15_Witness ==
    /\ tpc = "chunked"
    /\ textImpl = "worker"
    /\ text = LongText
    /\ maxChunkLength = 2000
    /\ Len(textChunks) = 1
    /\ Len(textChunks[1]) = 3100

RECURSIVE Reassembles(_, _, _, _)
\* The chunks from the k-th on are found in s from position p on, one after another,
\* with nothing but white space before, between and after them.
Reassembles(s, p, chunks, k) ==
    IF k > Len(chunks)
    THEN \A m \in p .. Len(s) : IsSpace(s[m])
    ELSE \E q \in p .. (Len(s) - Len(chunks[k]) + 1) :
            /\ \A m \in p .. (q - 1) : IsSpace(s[m])
            /\ SubSeq(s, q, q + Len(chunks[k]) - 1) = chunks[k]
            /\ Reassembles(s, q + Len(chunks[k]), chunks, k + 1)

\* C16: the chunks a chunker returns, concatenated in order, are the text it was given
\* with no character lost, added or moved, except white space at chunk boundaries; no
\* chunk is empty; the fixed slices of v1.2 reproduce the text exactly.
C16_ChunksReproduceText ==
    tpc = "chunked" =>
        /\ \A k \in 1 .. Len(textChunks) : textChunks[k] # <<>>
        /\ (textImpl = "v12" => Flatten(textChunks) = text)
        /\ (textImpl = "worker" =>
                \/ Flatten(textChunks) = text
                \/ Reassembles(text, 1, textChunks, 1))

\* C16 witness: smartChunkText cut a text into two chunks and dropped white space
\* between them.
C16_Witness ==
    /\ tpc = "chunked"
    /\ textImpl = "worker"
    /\ Len(textChunks) = 2
    /\ Len(Flatten(textChunks)) < Len(text)
    /\ Reassembles(text, 1, textChunks, 1)

\* ========================================================================
\* Text normalization: cleanText (src/_worker.js and v1.2)
\* ========================================================================
MaxCleanLen == 3    \* length of the texts given to cleanText

\* the characters . does not match (LineTerminator, of which the texts hold two)
LineTerminators == {"\n", "\r"}

Digits == {"0", "1", "2", "3", "4", "5", "6", "7", "8", "9"}

\* \p{Emoji_Presentation}, of which the texts hold one: U+1F60A
EmojiPresentation == {"U+1F60A"}

\* the characters a citation number must stand before (_worker.js): . , ; : and
\* their full-width forms
CitationFollowers == {".", "U+3002", "U+FF0C", ",", ";", "U+FF1B", ":", "U+FF1A"}

\* s holds w from position p on
StartsWith(s, p, w) ==
    /\ p + Len(w) - 1 <= Len(s)
    /\ SubSeq(s, p, p + Len(w) - 1) = w

\* no line terminator in s[a .. b], so that .*? can match it
DotRun(s, a, b) == \A m \in a .. b : s[m] \notin LineTerminators

\* the last position of the longest run of characters of class cls that starts at p
ClassRunEnd(s, p, cls) ==
    CHOOSE k \in p .. Len(s) :
        /\ \A m \in p .. k : s[m] \in cls
        /\ (k = Len(s) \/ s[k + 1] \notin cls)

\* the least element of a set of positions, 0 for the empty set
Least(S) == IF S = {} THEN 0 ELSE CHOOSE k \in S : \A m \in S : k <= m

\* Variant of UrlEnd: the URL pattern never matches.
UrlEndNever(s, p) == 0

\* /(https?:\/\/[^\s]+)/ at p: the last position of the match, 0 without a match
UrlEnd(s, p) ==
    LET q == IF StartsWith(s, p, <<"h", "t", "t", "p", "s", ":", "/", "/">>) THEN p + 8
             ELSE IF StartsWith(s, p, <<"h", "t", "t", "p", ":", "/", "/">>) THEN p + 7
             ELSE 0
    IN  IF q = 0 \/ q > Len(s) THEN 0
        ELSE IF s[q] \in WhiteSpace THEN 0
        ELSE CHOOSE k \in q .. Len(s) :
                /\ \A m \in q .. k : s[m] \notin WhiteSpace
                /\ (k = Len(s) \/ s[k + 1] \in WhiteSpace)

\* /\[(.*?)\]\(.*?\)/ at p: the position of the "]" that ends group 1, 0 without a match
LinkMid(s, p) ==
    IF p > Len(s) \/ s[p] # "[" THEN 0
    ELSE Least({j \in (p + 1) .. (Len(s) - 2) :
                    /\ s[j] = "]"
                    /\ s[j + 1] = "("
                    /\ DotRun(s, p + 1, j - 1)
                    /\ \E k \in (j + 2) .. Len(s) : s[k] = ")" /\ DotRun(s, j + 2, k - 1)})

\* ... and the position of the ")" that ends the match
LinkEnd(s, p) ==
    LET j == LinkMid(s, p)
    IN  IF j = 0 THEN 0
        ELSE Least({k \in (j + 2) .. Len(s) : s[k] = ")" /\ DotRun(s, j + 2, k - 1)})

\* /!\[.*?\]\(.*?\)/ at p
ImageEnd(s, p) == IF p < Len(s) /\ s[p] = "!" THEN LinkEnd(s, p + 1) ELSE 0

\* /(\*\*|__)(.*?)\1/ at p: the position where the closing \1 starts
BoldClose(s, p) ==
    IF p + 1 > Len(s) \/ s[p] \notin {"*", "_"} \/ s[p + 1] # s[p] THEN 0
    ELSE Least({j \in (p + 2) .. (Len(s) - 1) :
                    s[j] = s[p] /\ s[j + 1] = s[p] /\ DotRun(s, p + 2, j - 1)})

\* /(\*|_)(.*?)\1/ at p: the position of the closing \1
ItalicClose(s, p) ==
    IF s[p] \notin {"*", "_"} THEN 0
    ELSE Least({j \in (p + 1) .. Len(s) : s[j] = s[p] /\ DotRun(s, p + 1, j - 1)})

\* The code pattern, one to three backticks (U+0060), (.*?), one to three backticks,
\* at p with n opening backticks: the position of the first closing backtick
CodeCloseWith(s, p, n) ==
    IF p + n - 1 > Len(s) \/ \E m \in p .. (p + n - 1) : s[m] # "U+0060" THEN 0
    ELSE Least({j \in (p + n) .. Len(s) : s[j] = "U+0060" /\ DotRun(s, p + n, j - 1)})

\* the number of opening backticks of the match at p (the most that lets the rest
\* match), 0 without a match
CodeOpen(s, p) ==
    IF CodeCloseWith(s, p, 3) # 0 THEN 3
    ELSE IF CodeCloseWith(s, p, 2) # 0 THEN 2
    ELSE IF CodeCloseWith(s, p, 1) # 0 THEN 1
    ELSE 0

CodeEnd(s, p) ==
    LET n == CodeOpen(s, p)
        j == CodeCloseWith(s, p, n)
    IN  IF n = 0 THEN 0 ELSE Min(ClassRunEnd(s, j, {"U+0060"}), j + 2)

\* /#{1,6}\s/ at p
HeaderEnd(s, p) ==
    Least({k \in (p + 1) .. Min(p + 6, Len(s)) :
                s[k] \in WhiteSpace /\ \A m \in p .. (k - 1) : s[m] = "#"})

\* the alternation of the escaped keywords at p: the first keyword that is found there
KeywordEnd(s, p, keywords) ==
    LET hit == Least({n \in 1 .. Len(keywords) : StartsWith(s, p, keywords[n])})
    IN  IF hit = 0 THEN 0 ELSE p + Len(keywords[hit]) - 1

\* /\[\d+\]/ (or, with the brackets U+3010 and U+3011 in their place) at p
BracketCitationEnd(s, p, open, close) ==
    IF p + 2 > Len(s) \/ s[p] # open \/ s[p + 1] \notin Digits THEN 0
    ELSE LET d == ClassRunEnd(s, p + 1, Digits)
         IN  IF d < Len(s) /\ s[d + 1] = close THEN d + 1 ELSE 0

\* /\s\d{1,2}(?=[...]|$)/ at p, [...] being the characters above
NumberCitationEnd(s, p) ==
    IF p + 1 > Len(s) \/ s[p] \notin WhiteSpace \/ s[p + 1] \notin Digits THEN 0
    ELSE IF /\ p + 2 <= Len(s)
            /\ s[p + 2] \in Digits
            /\ (p + 2 = Len(s) \/ s[p + 3] \in CitationFollowers) THEN p + 2
    ELSE IF p + 1 = Len(s) \/ s[p + 2] \in CitationFollowers THEN p + 1
    ELSE 0

\* The patterns of cleanText: the last position of the match of a pattern at p, 0
\* without a match; arg holds the keywords or the character class of the pattern.
MatchEnd(pattern, arg, s, p) ==
    CASE pattern = "url" -> UrlEnd(s, p)
      [] pattern = "image" -> ImageEnd(s, p)
      [] pattern = "link" -> LinkEnd(s, p)
      [] pattern = "bold" -> IF BoldClose(s, p) = 0 THEN 0 ELSE BoldClose(s, p) + 1
      [] pattern = "italic" -> ItalicClose(s, p)
      [] pattern = "code" -> CodeEnd(s, p)
      [] pattern = "header" -> HeaderEnd(s, p)
      [] pattern = "keywords" -> KeywordEnd(s, p, arg)
      [] pattern = "emoji" -> IF s[p] \in EmojiPresentation THEN p ELSE 0
      [] pattern = "citation" -> BracketCitationEnd(s, p, arg[1], arg[2])
      [] pattern = "number" -> NumberCitationEnd(s, p)
      [] pattern \in {"run", "blank"} -> IF s[p] \in arg THEN ClassRunEnd(s, p, arg) ELSE 0

\* what the match of a pattern at p .. e is replaced with
Replacement(pattern, s, p, e) ==
    CASE pattern = "link" -> SubSeq(s, p + 1, LinkMid(s, p) - 1)
      [] pattern = "bold" -> SubSeq(s, p + 2, BoldClose(s, p) - 1)
      [] pattern = "italic" -> SubSeq(s, p + 1, e - 1)
      [] pattern = "code" -> SubSeq(s, p + CodeOpen(s, p), CodeCloseWith(s, p, CodeOpen(s, p)) - 1)
      [] pattern = "blank" -> <<" ">>
      [] OTHER -> <<>>

RECURSIVE ReplaceAll(_, _, _, _)
\* the text from position p on, e being the end of the match at p
ReplaceFrom(pattern, arg, s, p, e) ==
    IF e = 0
    THEN <<s[p]>> \o ReplaceAll(pattern, arg, s, p + 1)
    ELSE Replacement(pattern, s, p, e) \o ReplaceAll(pattern, arg, s, e + 1)

\* String.prototype.replace with a global pattern, from position p on: the matches
\* are taken from left to right, each search starting behind the match before
ReplaceAll(pattern, arg, s, p) ==
    IF p > Len(s) THEN <<>>
    ELSE ReplaceFrom(pattern, arg, s, p, MatchEnd(pattern, arg, s, p))

RECURSIVE SplitComma(_, _, _)
\* custom_keywords.split(","): the pieces of s from position p on, cur being the
\* piece under construction
SplitComma(s, p, cur) ==
    IF p > Len(s) THEN <<cur>>
    ELSE IF s[p] = "," THEN <<cur>> \o SplitComma(s, p + 1, <<>>)
    ELSE SplitComma(s, p + 1, Append(cur, s[p]))

TrimAll(pieces) == [n \in 1 .. Len(pieces) |-> Trim(pieces[n])]

\* options.custom_keywords.split(",").map(k => k.trim()).filter(k => k)
Keywords(customKeywords) ==
    SelectSeq(TrimAll(SplitComma(customKeywords, 1, <<>>)), LAMBDA k : k # <<>>)

\* A call of replace or trim in cleanText: the pattern and its argument.
Call(pattern, arg) == <<pattern, arg>>

\* the calls a flag stands for, none when the flag is off
When(flag, cs) == IF flag THEN cs ELSE <<>>

\* the six replacements of remove_markdown
MarkdownCalls ==
    <<Call("image", <<>>), Call("link", <<>>), Call("bold", <<>>), Call("italic", <<>>),
      Call("code", <<>>), Call("header", <<>>)>>

\* the replacement of the custom keywords, if any is left after the filter
KeywordCalls(keywords) ==
    When(keywords # <<>>, <<Call("keywords", keywords)>>)

\* the calls both versions of cleanText share: URLs, Markdown, keywords, emoji
ContentCalls(o) ==
    When(o.remove_urls, <<Call("url", <<>>)>>)
    \o When(o.remove_markdown, MarkdownCalls)
    \o KeywordCalls(Keywords(o.custom_keywords))
    \o When(o.remove_emoji, <<Call("emoji", <<>>)>>)

\* the calls of cleanText(text, options) of src/_worker.js, in order
WorkerCalls(o) ==
    ContentCalls(o)
    \o When(o.remove_citation_numbers, <<Call("number", <<>>)>>)
    \o When(o.remove_line_breaks, <<Call("run", WhiteSpace)>>)
    \o <<Call("trim", <<>>)>>

\* the calls of cleanText(text, options) of v1.2, in order
V12Calls(o) ==
    ContentCalls(o)
    \o When(o.remove_citation_numbers,
            <<Call("citation", <<"[", "]">>), Call("citation", <<"U+3010", "U+3011">>)>>)
    \o When(o.remove_line_breaks,
            <<Call("run", LineTerminators), Call("trim", <<>>), Call("blank", WhiteSpace)>>)
    \o When(~o.remove_line_breaks,
            <<Call("trim", <<>>), Call("blank", {" ", "\t"})>>)

\* one call applied to the text
ApplyCall(call, s) ==
    IF call[1] = "trim" THEN Trim(s) ELSE ReplaceAll(call[1], call[2], s, 1)

RECURSIVE ApplyCalls(_, _, _)
\* the calls from the k-th on applied to the text, one after another
ApplyCalls(cs, k, s) ==
    IF k > Len(cs) THEN s ELSE ApplyCalls(cs, k + 1, ApplyCall(cs[k], s))

\* cleanText(text, options) of src/_worker.js
cleanText(s, o) == ApplyCalls(WorkerCalls(o), 1, s)

\* cleanText(text, options) of v1.2
cleanTextV12(s, o) == ApplyCalls(V12Calls(o), 1, s)

\* ------------------------------------------------------------------------
\* The texts and options given to cleanText (specification SpecText)
\* ------------------------------------------------------------------------
CleanAlphabet == {"a", "b", "*", "_", "U+0060", "#", "[", "]", "1", " ", "\n"}

\* "Hello, world! [1] See https://x.co " followed by U+1F60A
HelloText ==
    <<"H", "e", "l", "l", "o", ",", " ", "w", "o", "r", "l", "d", "!", " ",
      "[", "1", "]", " ", "S", "e", "e", " ",
      "h", "t", "t", "p", "s", ":", "/", "/", "x", ".", "c", "o", " ", "U+1F60A">>

\* texts with runs of whitespace inside and around them
SpacedTexts ==
    { <<"a", " ", " ", "b">>,
      <<"a", " ", "\n", " ", "b">>,
      <<"a", "\r", "\n", "b">>,
      <<"a", "\n", "\n", "b">>,
      <<"a", " ", "\t", " ", "b">>,
      <<" ", "a", "\t", "\t", "b", "\n">>,
      <<"\n", "a", "\n", " ", "\n", "b", " ">> }

Flags(urls, markdown, emoji, citations, lineBreaks, keywords) ==
    [remove_urls |-> urls, remove_markdown |-> markdown, remove_emoji |-> emoji,
     remove_citation_numbers |-> citations, remove_line_breaks |-> lineBreaks,
     custom_keywords |-> keywords]

\* every cleaning flag enabled, no keyword
AllFlagsOn == Flags(TRUE, TRUE, TRUE, TRUE, TRUE, <<>>)

CleaningConfigs ==
    { AllFlagsOn,
      Flags(FALSE, FALSE, FALSE, FALSE, FALSE, <<>>),
      Flags(FALSE, TRUE, FALSE, FALSE, FALSE, <<>>),
      Flags(FALSE, FALSE, FALSE, TRUE, FALSE, <<>>),
      Flags(FALSE, FALSE, FALSE, FALSE, TRUE, <<>>),
      Flags(FALSE, FALSE, FALSE, FALSE, FALSE, <<"a", "b">>),
      Flags(TRUE, TRUE, TRUE, TRUE, FALSE, <<"b", ",", " ", "1">>) }

CleanWith(impl, s, o) == IF impl = "worker" THEN cleanText(s, o) ELSE cleanTextV12(s, o)

\* cleanText is applied to the input
ApplyCleanText ==
    /\ tpc = "input"
    /\ cleanedText' = CleanWith(textImpl, text, options)
    /\ tpc' = "cleaned"
    /\ UNCHANGED <<text, options, maxChunkLength, cleanedTwice, textChunks, textImpl>>
    /\ UNCHANGED <<schedVars, tokVars, reqVars, extVars>>

\* cleanText is applied to its own result, with the same options
ApplyCleanTextAgain ==
    /\ tpc = "cleaned"
    /\ cleanedTwice' = CleanWith(textImpl, cleanedText, options)
    /\ tpc' = "recleaned"
    /\ UNCHANGED <<text, options, maxChunkLength, cleanedText, textChunks, textImpl>>
    /\ UNCHANGED <<schedVars, tokVars, reqVars, extVars>>

\* the cleaned text is cut into chunks
ChunkCleanedText ==
    /\ tpc = "cleaned"
    /\ textChunks' = IF textImpl = "worker"
                     THEN smartChunkText(cleanedText, maxChunkLength)
                     ELSE FixedSlices(cleanedText, maxChunkSize)
    /\ tpc' = "chunked"
    /\ UNCHANGED <<text, options, maxChunkLength, cleanedText, cleanedTwice, textImpl>>
    /\ UNCHANGED <<schedVars, tokVars, reqVars, extVars>>

TextInit ==
    /\ text \in TextsOver(CleanAlphabet, MaxCleanLen) \cup {HelloText} \cup SpacedTexts
    /\ options \in CleaningConfigs
    /\ textImpl \in {"worker", "v12"}
    /\ maxChunkLength = 2000
    /\ tpc = "input"
    /\ cleanedText = <<>>
    /\ cleanedTwice = <<>>
    /\ textChunks = <<>>

InitText == SchedIdle /\ TokenIdle /\ ReqIdle /\ TextInit /\ ExtIdle

NextText == ApplyCleanText \/ ApplyCleanTextAgain \/ ChunkCleanedText

SpecText == InitText /\ [][NextText]_vars

\* ------------------------------------------------------------------------
\* Properties of cleanText (specification SpecText)
\* ------------------------------------------------------------------------
\* C17 (as claimed): cleanText is idempotent: for every text and every options,
\* cleaning the cleaned text again with the same options changes nothing.
C17_CleanTextIdempotent ==
    (tpc = "recleaned" /\ textImpl = "v12") => cleanedTwice = cleanedText

\* C17 witness: the v1.2 cleanText, asked to remove Markdown and line breaks, returned
\* a text that it shortens when it is applied to it again.
C17_Witness ==
    /\ tpc = "recleaned"
    /\ textImpl = "v12"
    /\ options.remove_markdown
    /\ cleanedText # <<>>
    /\ Len(cleanedTwice) < Len(cleanedText)

HelloWorld == <<"H", "e", "l", "l", "o", ",", " ", "w", "o", "r", "l", "d", "!">>

HelloCleaned == tpc = "chunked" /\ text = HelloText /\ options = AllFlagsOn

RECURSIVE SqueezeFrom(_, _, _)
\* s from position p on, with one space for every run of characters of the class
SqueezeFrom(s, class, p) ==
    IF p > Len(s) THEN <<>>
    ELSE IF s[p] \notin class THEN <<s[p]>> \o SqueezeFrom(s, class, p + 1)
    ELSE IF p > 1 /\ s[p - 1] \in class THEN SqueezeFrom(s, class, p + 1)
    ELSE <<" ">> \o SqueezeFrom(s, class, p + 1)

\* the whitespace stage as it is described: line breaks deleted and every run of
\* whitespace made one space, or only the runs of spaces and tabs made one space;
\* trimmed in both cases
WhitespaceStage(s, removeLineBreaks) ==
    IF removeLineBreaks
    THEN SqueezeFrom(Trim(SelectSeq(s, LAMBDA ch : ch \notin LineTerminators)), WhiteSpace, 1)
    ELSE SqueezeFrom(Trim(s), {" ", "\t"}, 1)

\* no other stage of cleanText is enabled
OnlyWhitespaceStage(o) == o = Flags(FALSE, FALSE, FALSE, FALSE, o.remove_line_breaks, <<>>)

NoOuterWhitespace(s) == s = <<>> \/ (~IsSpace(s[1]) /\ ~IsSpace(s[Len(s)]))

\* C29 (as claimed): the whitespace stage of cleanText: with line-break removal
\* enabled every line break is deleted (not replaced by a space) and each remaining
\* run of whitespace becomes one space; with it disabled every line break of the
\* trimmed text is preserved and only runs of spaces and tabs become one space; in
\* both cases the result has no leading or trailing whitespace.
C29_WhitespaceStage ==
    (tpc = "cleaned" /\ OnlyWhitespaceStage(options)) =>
        /\ cleanedText = WhitespaceStage(text, options.remove_line_breaks)
        /\ NoOuterWhitespace(cleanedText)

\* C29 witness: cleanText of src/_worker.js, asked to remove line breaks only, has
\* deleted the space between two words of a text without a line break.
C29_Witness ==
    /\ tpc = "cleaned"
    /\ textImpl = "worker"
    /\ options = Flags(FALSE, FALSE, FALSE, FALSE, TRUE, <<>>)
    /\ text = <<"a", " ", "b">>
    /\ cleanedText = <<"a", "b">>
    /\ WhitespaceStage(text, TRUE) = <<"a", " ", "b">>

\* ------------------------------------------------------------------------
\* A text that is cleaned to nothing (specification SpecLive)
\* ------------------------------------------------------------------------
\* the job of a text that was accepted and gave no chunk
NoChunks == jobpc \in {"loop", "await", "write", "drain", "done"} /\ nChunks = 0

\* the job has answered with no audio: an empty payload, or a stream that was closed
\* (once, never aborted) without a write
EmptySuccess ==
    /\ jobpc = "done"
    /\ handler \in BufferedHandlers => response = AudioResponse(<<>>)
    /\ handler \in StreamingHandlers =>
            /\ response = StreamResponse
            /\ writer = [NewWriter EXCEPT !.state = "closed", !.closes = 1]

\* non-empty texts that cleanText turns into the empty string
EmptyingTexts == {<<" ">>, <<"\n">>, <<" ", "\n">>, <<"*", "*">>}

\* the options handleSpeechRequest of v1.2 starts from
V12DefaultFlags == Flags(TRUE, TRUE, TRUE, TRUE, FALSE, <<>>)

\* both chunkers give no chunk for what is left of such a text
ChunkerGivesNone ==
    \A s \in EmptyingTexts :
        /\ cleanText(s, AllFlagsOn) = <<>>
        /\ cleanTextV12(s, V12DefaultFlags) = <<>>
        /\ \A n \in 1 .. MaxChunkSize : smartChunkText(cleanText(s, AllFlagsOn), n) = <<>>
        /\ FixedSlices(cleanTextV12(s, V12DefaultFlags), maxChunkSize) = <<>>

\* C28: a request whose non-empty text normalizes to the empty string is valid: the
\* chunker returns zero chunks, no getAudioChunk call (hence no handshake) and no
\* synthesis POST is issued, nothing is written, and the job completes successfully
\* with an empty audio payload (buffered) or a stream closed without a write.
C28_EmptyTextSucceeds ==
    /\ [](NoChunks =>
            /\ ChunkerGivesNone
            /\ \A c \in ChunkIds : calls[c] = 0 /\ posts[c] = 0 /\ cpc[c] = "idle"
            /\ allAudioBlobs = <<>>
            /\ writer.written = <<>> /\ writer.aborts = 0
            /\ response.kind # "error"
            /\ jobpc = "done" => EmptySuccess)
    /\ (NoChunks ~> EmptySuccess)

\* C28 witness: a whitespace-only input was accepted and cleaned, gave no chunk, and
\* the streaming job has ended with the stream closed and nothing written or called.
C28_Witness ==
    /\ reqInput = "blank"
    /\ cleaned = 1
    /\ nChunks = 0
    /\ handler \in StreamingHandlers
    /\ EmptySuccess
    /\ \A c \in ChunkIds : calls[c] = 0

\* ========================================================================
\* The client-installation id: generateUserIdFromDomain (v1.2)
\* ========================================================================
MaxHostLen == 6     \* length of the hostnames
MaxOtherLen == 2    \* length of the hostnames of the second deployment

\* Numbers are kept in limbs of 16 bits, the most significant first.
Limb == 65536

\* String.prototype.charCodeAt for the characters of the hostnames
charCodeAt(ch) ==
    CASE ch = "a" -> 97
      [] ch = "c" -> 99
      [] ch = "n" -> 110
      [] ch = "0" -> 48
      [] ch = "." -> 46
      [] ch = "-" -> 45

\* hash = (hash << 5) - hash + char; hash = hash & hash: the 32-bit integer
\* 31 * hash + char, as a word <<high limb, low limb>> in two's complement
HashStep(hash, char) ==
    LET low == 31 * hash[2] + char
        high == 31 * hash[1] + (low \div Limb)
    IN  <<high % Limb, low % Limb>>

RECURSIVE HashLoop(_, _, _)
\* for (let i = 0; i < domain.length; i++): i counts from 1 here
HashLoop(domain, k, hash) ==
    IF k > Len(domain) THEN hash
    ELSE HashLoop(domain, k + 1, HashStep(hash, charCodeAt(domain[k])))

\* Math.abs of the 32-bit integer a word stands for (at most 2^31)
Abs(hash) ==
    IF hash[1] < Limb \div 2 THEN hash
    ELSE IF hash[2] = 0 THEN <<Limb - hash[1], 0>>
    ELSE <<Limb - hash[1] - 1, Limb - hash[2]>>

\* hash * 31 is not brought back to 32 bits: the product of the absolute value, in
\* three limbs
Times31(n) ==
    LET low == 31 * n[2]
        mid == 31 * n[1] + (low \div Limb)
    IN  <<mid \div Limb, mid % Limb, low % Limb>>

HexDigits ==
    <<"0", "1", "2", "3", "4", "5", "6", "7", "8", "9", "a", "b", "c", "d", "e", "f">>

\* the four hexadecimal digits of a limb
LimbHex(n) ==
    <<HexDigits[(n \div 4096) + 1], HexDigits[((n \div 256) % 16) + 1],
      HexDigits[((n \div 16) % 16) + 1], HexDigits[(n % 16) + 1]>>

RECURSIVE AllLimbsHex(_, _)
AllLimbsHex(n, k) ==
    IF k > Len(n) THEN <<>> ELSE LimbHex(n[k]) \o AllLimbsHex(n, k + 1)

\* the digits without the leading zeros, "0" for zero
NoLeadingZeros(digits) ==
    IF \A k \in 1 .. Len(digits) : digits[k] = "0" THEN <<"0">>
    ELSE SubSeq(digits,
                CHOOSE k \in 1 .. Len(digits) :
                    digits[k] # "0" /\ \A m \in 1 .. (k - 1) : digits[m] = "0",
                Len(digits))

\* Number.prototype.toString(16) of a number >= 0
toString16(n) == NoLeadingZeros(AllLimbsHex(n, 1))

\* String.prototype.padStart(targetLength, "0"): a longer string is left as it is
padStart(str, targetLength) ==
    IF Len(str) >= targetLength THEN str
    ELSE [k \in 1 .. (targetLength - Len(str)) |-> "0"] \o str

\* the id returned when new URL(requestUrl) throws: "0f04d16a175c411e"
DefaultUserId ==
    <<"0", "f", "0", "4", "d", "1", "6", "a", "1", "7", "5", "c", "4", "1", "1", "e">>

\* generateUserIdFromDomain(requestUrl)
generateUserIdFromDomain(url) ==
    IF ~url.valid THEN DefaultUserId
    ELSE LET hash == HashLoop(url.hostname, 1, <<0, 0>>)
         IN  padStart(toString16(Abs(hash)), 8)
             \o padStart(toString16(Times31(Abs(hash))), 8)

\* The hostnames of the deployments
HostAlphabet == {"a", "n", "0"}
OtherAlphabet == {"c", "0"}

Urls(alphabet, maxLen) ==
    {[valid |-> TRUE, hostname |-> h] : h \in TextsOver(alphabet, maxLen) \ {<<>>}}

\* the id of the first deployment is computed (getEndpoint, on a handshake)
GenerateUserId ==
    /\ requestUrl # NoUrl \/ otherUrl # NoUrl
    /\ userId = <<>>
    /\ userId' = generateUserIdFromDomain(requestUrl)
    /\ UNCHANGED <<requestUrl, otherUrl, otherUserId>>
    /\ UNCHANGED exceptId

\* the id of the second deployment is computed
GenerateOtherUserId ==
    /\ userId # <<>>
    /\ otherUserId = <<>>
    /\ otherUserId' = generateUserIdFromDomain(otherUrl)
    /\ UNCHANGED <<requestUrl, otherUrl, userId>>
    /\ UNCHANGED exceptId

IdInit ==
    /\ requestUrl \in Urls(HostAlphabet, MaxHostLen) \cup {NoUrl}
    /\ otherUrl \in Urls(OtherAlphabet, MaxOtherLen)
    /\ userId = <<>>
    /\ otherUserId = <<>>

InitId == SchedIdle /\ TokenIdle /\ ReqIdle /\ TextIdle /\ IdInit /\ WebIdle /\ VoiceIdle /\ XmlIdle /\ StoreIdle

NextId == GenerateUserId \/ GenerateOtherUserId

SpecId == InitId /\ [][NextId]_vars

\* ------------------------------------------------------------------------
\* Properties of the client-installation id (specification SpecId)
\* ------------------------------------------------------------------------
IsHex(str) == \A k \in 1 .. Len(str) : \E d \in 1 .. 16 : str[k] = HexDigits[d]

\* C21 (as claimed): for every hostname generateUserIdFromDomain returns a string of
\* exactly 16 hexadecimal digits.
C21_SixteenHexDigits ==
    userId # <<>> => (Len(userId) = 16 /\ IsHex(userId))

\* C21 witness: for a hostname, generateUserIdFromDomain returned 17 hexadecimal
\* digits.
C21_Witness ==
    /\ requestUrl.valid
    /\ Len(userId) = 17
    /\ IsHex(userId)

\* C22 (as claimed): the same hostname always yields the same id, and two different
\* hostnames never yield the same id.
C22_IdSeparatesDeployments ==
    (userId # <<>> /\ otherUserId # <<>> /\ requestUrl.valid /\ otherUrl.valid) =>
        (requestUrl.hostname = otherUrl.hostname <=> userId = otherUserId)

\* C22 witness: two deployments with different hostnames were given the same id.
C22_Witness ==
    /\ requestUrl.valid
    /\ otherUrl.valid
    /\ requestUrl.hostname # otherUrl.hostname
    /\ userId # <<>>
    /\ userId = otherUserId

\* ========================================================================
\* The request router, the share pages and the history API (v1.2)
\* ========================================================================
MaxXmlLen == 4      \* longest chunk text that is escaped
MaxRequests == 3    \* requests handled in a run

\* the configured API key, a different key, the share token stored with the item and
\* a share token that is not stored
ConfiguredKey == "sk"
ShareKeys == {"share_u", "share_x"}
StoredShareKey == "share_u"

\* Authorization headers: none, one of another scheme, and Bearer headers
AuthHeaders ==
    {NoAuth, [present |-> TRUE, bearer |-> FALSE, key |-> ""]}
    \cup {[present |-> TRUE, bearer |-> TRUE, key |-> k] :
            k \in {ConfiguredKey, "other"} \cup ShareKeys}

\* !authHeader || !authHeader.startsWith("Bearer ")
MissingBearer(auth) == ~auth.present \/ ~auth.bearer

\* the share password of the item, and what a visitor may send in its place
SharePassword == "pw"
ProvidedPasswords == {"", SharePassword, "bad"}

Methods == {"GET", "POST"}

V1Routes == {"/v1/audio/speech", "/v1/models"}
ApiRoutes ==
    V1Routes \cup {"/api/save", "/api/save-realtime", "/api/history", "/api/set-password",
                   "/api/delete", "/api/audio/"}

Request(route, auth, cookie, pwd) ==
    [route |-> route, auth |-> auth, cookie |-> cookie, pwd |-> pwd,
     protected |-> kv.meta.exists /\ kv.meta.password # "",
     entitled |-> FALSE, shareValid |-> FALSE]

WebResponse(status, serves, setCookie, reads, writes) ==
    [status |-> status, serves |-> serves, setCookie |-> setCookie,
     reads |-> reads, writes |-> writes]

\* errorResponse(message, status, code), after the given number of KV reads
WebError(status, reads) == WebResponse(status, {}, FALSE, reads, 0)

\* a request is answered: the response, the store after it, and whether the visitor
\* has presented the share password by now
Answer(request, answer, store, hasPresented) ==
    /\ nRequests < MaxRequests
    /\ nRequests' = nRequests + 1
    /\ lastRequest' = [request EXCEPT !.entitled = hasPresented]
    /\ lastResponse' = answer
    /\ kv' = store
    /\ presented' = hasPresented
    /\ UNCHANGED apiKey
    /\ UNCHANGED exceptWeb

\* handleShareRequest: GET /share/<id>, with the cookie share_auth_<id> and ?pwd=
ShareResponse(cookie, pwd) ==
    IF ~kv.meta.exists THEN WebError(404, 1)
    ELSE IF kv.meta.password # "" /\ cookie # "1"
    THEN IF pwd # "" /\ pwd = kv.meta.password
         THEN WebResponse(302, {}, TRUE, 1, 0)
         ELSE WebResponse(200, {}, FALSE, 1, 0)        \* the password page
    ELSE IF kv.meta.type = "realtime" THEN WebResponse(200, {"text"}, FALSE, 1, 0)
    ELSE IF ~kv.audio THEN WebError(404, 2)
    ELSE WebResponse(200, {"text"}, FALSE, 2, 0)

HandleShareRequest ==
    \E cookie \in {"", "1"}, pwd \in ProvidedPasswords :
        Answer(Request("/share/", NoAuth, cookie, pwd),
               ShareResponse(cookie, pwd),
               kv,
               presented \/ (kv.meta.exists /\ kv.meta.password # ""
                                /\ pwd = kv.meta.password))

\* handleShareAuthRequest: POST /share/<id>/auth with a password
ShareAuthResponse(method, password) ==
    IF method # "POST" THEN WebError(405, 0)
    ELSE IF ~kv.meta.exists THEN WebError(404, 1)
    ELSE IF kv.meta.password = "" THEN WebResponse(204, {}, FALSE, 1, 0)
    ELSE IF password # kv.meta.password THEN WebError(401, 1)
    ELSE WebResponse(204, {}, TRUE, 1, 0)

HandleShareAuthRequest ==
    \E method \in Methods, password \in ProvidedPasswords :
        Answer(Request("/share/auth", NoAuth, "", password),
               ShareAuthResponse(method, password),
               kv,
               presented \/ (method = "POST" /\ kv.meta.exists /\ kv.meta.password # ""
                                /\ password = kv.meta.password))

\* handleAudioRequest: GET /api/audio/<id>
HandleAudioRequest ==
    \E auth \in AuthHeaders :
        Answer(Request("/api/audio/", auth, "", ""),
               IF kv.audio THEN WebResponse(200, {"audio"}, FALSE, 1, 0)
                           ELSE WebError(404, 1),
               kv,
               presented)

\* handleHistoryApiRequest: GET /api/history
HandleHistoryApiRequest ==
    \E auth \in AuthHeaders :
        Answer(Request("/api/history", auth, "", ""),
               IF MissingBearer(auth) THEN WebError(401, 0)
               ELSE WebResponse(200, IF kv.index THEN {"summary"} ELSE {}, FALSE, 1, 0),
               kv,
               presented)

\* handleSetPasswordRequest: POST /api/set-password {id, password}
SetPasswordResponse(method, auth, hasId) ==
    IF method # "POST" THEN WebError(405, 0)
    ELSE IF MissingBearer(auth) THEN WebError(401, 0)
    ELSE IF ~hasId THEN WebError(400, 0)
    ELSE IF ~kv.meta.exists THEN WebError(404, 1)
    ELSE WebResponse(200, {}, FALSE, 1, 1)

HandleSetPasswordRequest ==
    \E method \in Methods, auth \in AuthHeaders, hasId \in BOOLEAN,
       password \in {"", SharePassword} :
        Answer(Request("/api/set-password", auth, "", ""),
               SetPasswordResponse(method, auth, hasId),
               IF SetPasswordResponse(method, auth, hasId).status = 200
               THEN [kv EXCEPT !.meta.password = password]
               ELSE kv,
               presented)

\* handleDeleteRequest: POST /api/delete {id}
DeleteResponse(method, auth, hasId) ==
    IF method # "POST" THEN WebError(405, 0)
    ELSE IF MissingBearer(auth) THEN WebError(401, 0)
    ELSE IF ~hasId THEN WebError(400, 0)
    ELSE WebResponse(200, {}, FALSE, 1, 3)

HandleDeleteRequest ==
    \E method \in Methods, auth \in AuthHeaders, hasId \in BOOLEAN :
        Answer(Request("/api/delete", auth, "", ""),
               DeleteResponse(method, auth, hasId),
               IF DeleteResponse(method, auth, hasId).status = 200
               THEN [kv EXCEPT !.meta = NoMeta, !.audio = FALSE, !.index = FALSE]
               ELSE kv,
               presented)

\* handleSaveRequest: POST /api/save (form data with text and audioFile)
SaveResponse(method, hasFields) ==
    IF method # "POST" THEN WebError(405, 0)
    ELSE IF ~hasFields THEN WebError(400, 0)
    ELSE WebResponse(200, {}, FALSE, 2, 3)

\* the item is stored under a fresh id; the model follows the first item stored
HandleSaveRequest ==
    \E method \in Methods, auth \in AuthHeaders, hasFields \in BOOLEAN :
        Answer(Request("/api/save", auth, "", ""),
               SaveResponse(method, hasFields),
               IF SaveResponse(method, hasFields).status = 200 /\ ~kv.meta.exists
               THEN [kv EXCEPT !.meta = [exists |-> TRUE, password |-> "", type |-> "stored"],
                               !.audio = TRUE, !.index = TRUE]
               ELSE kv,
               presented)

\* handleSaveRealtimeRequest: POST /api/save-realtime {text, ...}
SaveRealtimeResponse(method, hasFields) ==
    IF method # "POST" THEN WebError(405, 0)
    ELSE IF ~hasFields THEN WebError(400, 0)
    ELSE WebResponse(200, {}, FALSE, 1, 3)

HandleSaveRealtimeRequest ==
    \E method \in Methods, auth \in AuthHeaders, hasFields \in BOOLEAN :
        Answer(Request("/api/save-realtime", auth, "", ""),
               SaveRealtimeResponse(method, hasFields),
               IF SaveRealtimeResponse(method, hasFields).status = 200 /\ ~kv.meta.exists
               THEN [kv EXCEPT !.meta = [exists |-> TRUE, password |-> "",
                                         type |-> "realtime"],
                               !.index = TRUE, !.shareAuth = TRUE]
               ELSE kv,
               presented)

\* the share token of a /v1/ request is stored and the hash of the request body is
\* the stored content hash
ShareTokenValid(auth, hashMatches) ==
    /\ auth.key = StoredShareKey
    /\ kv.shareAuth
    /\ hashMatches

\* handleRequest: the check made for the paths that start with /v1/, then the route
V1Response(auth, hashMatches) ==
    IF MissingBearer(auth) THEN WebError(401, 0)
    ELSE IF auth.key \in ShareKeys
    THEN IF ~(auth.key = StoredShareKey /\ kv.shareAuth) THEN WebError(403, 1)
         ELSE IF ~hashMatches THEN WebError(403, 1)
         ELSE WebResponse(200, {}, FALSE, 1, 0)
    ELSE IF apiKey # "" /\ auth.key # apiKey THEN WebError(403, 0)
    ELSE WebResponse(200, {}, FALSE, 0, 0)

HandleV1Request ==
    \E route \in V1Routes, auth \in AuthHeaders, hashMatches \in BOOLEAN :
        Answer([Request(route, auth, "", "") EXCEPT
                    !.shareValid = ~MissingBearer(auth) /\ ShareTokenValid(auth, hashMatches)],
               V1Response(auth, hashMatches),
               kv,
               presented)

WebInit ==
    /\ apiKey \in {"", ConfiguredKey}
    /\ kv = EmptyKV
    /\ presented = FALSE
    /\ lastRequest = NoRequest
    /\ lastResponse = NoWebResponse
    /\ nRequests = 0

InitWeb == SchedIdle /\ TokenIdle /\ ReqIdle /\ TextIdle /\ IdIdle /\ WebInit /\ VoiceIdle /\ XmlIdle /\ StoreIdle

NextWeb ==
    \/ HandleShareRequest
    \/ HandleShareAuthRequest
    \/ HandleAudioRequest
    \/ HandleHistoryApiRequest
    \/ HandleSetPasswordRequest
    \/ HandleDeleteRequest
    \/ HandleSaveRequest
    \/ HandleSaveRealtimeRequest
    \/ HandleV1Request

SpecWeb == InitWeb /\ [][NextWeb]_vars

\* ------------------------------------------------------------------------
\* Properties of the router (specification SpecWeb)
\* ------------------------------------------------------------------------
\* C23 (as claimed): the text and the audio of an item that has a share password are
\* returned only to a requester that has presented the password, directly or
\* through the cookie issued for it.
C23_PasswordProtectsItem ==
    (lastRequest.protected /\ lastResponse.serves \cap {"text", "audio"} # {})
        => lastRequest.entitled

\* C23 witness: the audio of an item that has a share password was returned by
\* /api/audio/<id> to a requester that never presented a password or a cookie.
C23_Witness ==
    /\ lastRequest.route = "/api/audio/"
    /\ lastRequest.protected
    /\ ~presented
    /\ ~lastRequest.auth.present
    /\ "audio" \in lastResponse.serves

\* the request carries Bearer <the configured key> or, on /v1/, a valid share token
Authorized(request) ==
    \/ request.auth.present /\ request.auth.bearer /\ request.auth.key = apiKey
    \/ request.route \in V1Routes /\ request.shareValid

\* C24 (as claimed): with an API key configured, a request to a /v1/ or /api/ route
\* that does not carry Bearer <the configured key> (or, on /v1/, a valid share
\* token) is rejected and performs no read or write.
C24_ApiKeyRequired ==
    (apiKey # "" /\ lastRequest.route \in ApiRoutes /\ ~Authorized(lastRequest)) =>
        /\ lastResponse.status >= 400
        /\ lastResponse.reads = 0
        /\ lastResponse.writes = 0

\* C24 witness: with an API key configured, /api/delete deleted the item for a
\* request that carried a different key.
C24_Witness ==
    /\ apiKey # ""
    /\ lastRequest.route = "/api/delete"
    /\ lastRequest.auth.bearer
    /\ lastRequest.auth.key = "other"
    /\ lastResponse.status = 200
    /\ lastResponse.writes > 0
    /\ ~kv.meta.exists

\* ========================================================================
\* Voice resolution: handleSpeechRequest (v1.2)
\* ========================================================================
OpenAIVoices == {"shimmer", "alloy", "fable", "onyx", "nova", "echo"}

\* OPENAI_VOICE_MAP[name], Undefined for a name that is not a key
OPENAI_VOICE_MAP(name) ==
    CASE name = "shimmer" -> "zh-CN-XiaoxiaoNeural"
      [] name = "alloy" -> "zh-CN-YunyangNeural"
      [] name = "fable" -> "zh-CN-YunjianNeural"
      [] name = "onyx" -> "zh-CN-XiaoyiNeural"
      [] name = "nova" -> "zh-CN-YunxiNeural"
      [] name = "echo" -> "zh-CN-liaoning-XiaobeiNeural"
      [] OTHER -> Undefined

\* a || b for strings: b when a is undefined or empty
OrElse(a, b) == IF a \in {Undefined, ""} THEN b ELSE a

\* the model ids of the requests: tts-1, tts-1-hd, tts-1-<name> and a native voice
\* name given as the model; an omitted model is "tts-1"
Models ==
    {Model("", "tts-1"), Model("tts-1-", "hd"), Model("tts-1-", "alloy"),
     Model("tts-1-", "nova"), Model("tts-1-", "echo"), Model("tts-1-", "zz"),
     Model("", "en-US-AriaNeural"), Model("", "alloy")}

\* the voices of the requests: omitted, empty, the OpenAI names and native names
Voices == {Undefined, ""} \cup OpenAIVoices \cup {"en-US-AriaNeural", "zh-CN-YunxiNeural"}

IsStandardModel(m) == m = Model("", "tts-1") \/ m = Model("tts-1-", "hd")

\* finalVoice as handleSpeechRequest computes it from model and voice
ResolveVoice(m, v) ==
    IF IsStandardModel(m)
    THEN OrElse(OrElse(OPENAI_VOICE_MAP(v), v), "zh-CN-XiaoxiaoNeural")
    ELSE IF m.prefix = "tts-1-"
    THEN OrElse(OPENAI_VOICE_MAP(m.rest), "zh-CN-XiaoxiaoNeural")
    ELSE OrElse(OrElse(v, m.prefix \o m.rest), "zh-CN-XiaoxiaoNeural")

\* handleSpeechRequest resolves the voice of the request
ResolveRequestVoice ==
    /\ reqModel # Model("", "")
    /\ finalVoice = Undefined
    /\ finalVoice' = ResolveVoice(reqModel, reqVoice)
    /\ UNCHANGED <<reqModel, reqVoice>>
    /\ UNCHANGED exceptVoice

\* the request is answered and the next one arrives
NextRequest ==
    /\ finalVoice # Undefined
    /\ reqModel' \in Models
    /\ reqVoice' \in Voices
    /\ finalVoice' = Undefined
    /\ UNCHANGED exceptVoice

VoiceInit ==
    /\ reqModel \in Models
    /\ reqVoice \in Voices
    /\ finalVoice = Undefined

InitVoice == SchedIdle /\ TokenIdle /\ ReqIdle /\ TextIdle /\ IdIdle /\ WebIdle /\ VoiceInit /\ XmlIdle /\ StoreIdle

NextVoice == ResolveRequestVoice \/ NextRequest

SpecVoice == InitVoice /\ [][NextVoice]_vars

\* ------------------------------------------------------------------------
\* Properties of the voice resolution (specification SpecVoice)
\* ------------------------------------------------------------------------
\* C25 (as claimed): with model tts-1 or tts-1-hd the voice parameter selects the
\* voice: an OpenAI name maps through OPENAI_VOICE_MAP, a native voice name is used
\* unchanged, an omitted voice defaults to alloy; with model tts-1-<name> the mapped
\* voice of <name> is used.
C25_VoiceResolution ==
    finalVoice # Undefined =>
        /\ (IsStandardModel(reqModel) /\ reqVoice \in OpenAIVoices)
                => finalVoice = OPENAI_VOICE_MAP(reqVoice)
        /\ (IsStandardModel(reqModel) /\ reqVoice \notin OpenAIVoices \cup {Undefined, ""})
                => finalVoice = reqVoice
        /\ (IsStandardModel(reqModel) /\ reqVoice = Undefined)
                => finalVoice = OPENAI_VOICE_MAP("alloy")
        /\ (~IsStandardModel(reqModel) /\ reqModel.prefix = "tts-1-"
                /\ reqModel.rest \in OpenAIVoices)
                => finalVoice = OPENAI_VOICE_MAP(reqModel.rest)

\* C25 witness: a request with model tts-1 and no voice was given the voice of
\* shimmer, not that of alloy.
C25_Witness ==
    /\ reqModel = Model("", "tts-1")
    /\ reqVoice = Undefined
    /\ finalVoice = OPENAI_VOICE_MAP("shimmer")
    /\ finalVoice # OPENAI_VOICE_MAP("alloy")

\* ========================================================================
\* XML escaping of the chunk text: getAudioChunk (v1.2), getSsml (src/_worker.js)
\* ========================================================================
Amp == <<"&", "a", "m", "p", ";">>
Lt == <<"&", "l", "t", ";">>
Gt == <<"&", "g", "t", ";">>

RECURSIVE ReplaceChar(_, _, _)
\* s.replace(/ch/g, replacement) for a single character ch
ReplaceChar(s, ch, replacement) ==
    IF s = <<>> THEN <<>>
    ELSE (IF Head(s) = ch THEN replacement ELSE <<Head(s)>>)
             \o ReplaceChar(Tail(s), ch, replacement)

\* Variant of XmlEscape: the ampersand is replaced last.
XmlEscapeAmpLast(s) ==
    ReplaceChar(ReplaceChar(ReplaceChar(s, "<", Lt), ">", Gt), "&", Amp)

\* text.replace(/&/g, "&amp;").replace(/</g, "&lt;").replace(/>/g, "&gt;")
XmlEscape(s) ==
    ReplaceChar(ReplaceChar(ReplaceChar(s, "&", Amp), "<", Lt), ">", Gt)

\* the characters of the chunk texts: the three escaped ones and those of "&lt;"
XmlAlphabet == {"&", "<", ">", "l", "t", ";"}

\* chunk texts that hold entities themselves
EntityTexts == {Amp, Lt \o Gt, <<"a">> \o Amp \o Lt}

\* v1.2 getAudioChunk builds escapedText from the chunk
GetAudioChunkEscape ==
    /\ xpc = "input"
    /\ escapedText' = XmlEscape(chunkText)
    /\ xpc' = "getAudioChunk"
    /\ UNCHANGED chunkText
    /\ UNCHANGED exceptXml

\* getSsml of src/_worker.js builds sanitizedText from the chunk
GetSsml ==
    /\ xpc = "input"
    /\ escapedText' = XmlEscape(chunkText)
    /\ xpc' = "getSsml"
    /\ UNCHANGED chunkText
    /\ UNCHANGED exceptXml

XmlInit ==
    /\ chunkText \in TextsOver(XmlAlphabet, MaxXmlLen) \cup EntityTexts
    /\ escapedText = <<>>
    /\ xpc = "input"

InitXml ==
    SchedIdle /\ TokenIdle /\ ReqIdle /\ TextIdle /\ IdIdle /\ WebIdle /\ VoiceIdle /\ XmlInit /\ StoreIdle

NextXml == GetAudioChunkEscape \/ GetSsml

SpecXml == InitXml /\ [][NextXml]_vars

\* ------------------------------------------------------------------------
\* Properties of the escaping (specification SpecXml)
\* ------------------------------------------------------------------------
\* the entity e stands at position p of s
EntityAt(s, p, e) == p + Len(e) - 1 <= Len(s) /\ SubSeq(s, p, p + Len(e) - 1) = e

RECURSIVE UnescapeFrom(_, _)
\* what an XML parser reads from position p on: each of the three entities is one
\* character, every other character is itself
UnescapeFrom(s, p) ==
    IF p > Len(s) THEN <<>>
    ELSE IF EntityAt(s, p, Amp) THEN <<"&">> \o UnescapeFrom(s, p + Len(Amp))
    ELSE IF EntityAt(s, p, Lt) THEN <<"<">> \o UnescapeFrom(s, p + Len(Lt))
    ELSE IF EntityAt(s, p, Gt) THEN <<">">> \o UnescapeFrom(s, p + Len(Gt))
    ELSE <<s[p]>> \o UnescapeFrom(s, p + 1)

\* C30: the XML escaping of the chunk text is lossless and complete: the escaped text
\* holds no raw "<" or ">", every "&" in it starts one of "&amp;", "&lt;", "&gt;", and
\* unescaping it gives the chunk text back (an "&" of the input is escaped once).
C30_EscapeLossless ==
    xpc \in {"getAudioChunk", "getSsml"} =>
        /\ \A k \in 1 .. Len(escapedText) : escapedText[k] \notin {"<", ">"}
        /\ \A k \in 1 .. Len(escapedText) :
              escapedText[k] = "&" =>
                  \/ EntityAt(escapedText, k, Amp)
                  \/ EntityAt(escapedText, k, Lt)
                  \/ EntityAt(escapedText, k, Gt)
        /\ UnescapeFrom(escapedText, 1) = chunkText

\* C30 witness: the chunk "&lt;" was escaped to "&amp;lt;", which reads back as
\* "&lt;" and not as "<".
C30_Witness ==
    /\ xpc = "getSsml"
    /\ chunkText = Lt
    /\ escapedText = Amp \o <<"l", "t", ";">>
    /\ UnescapeFrom(escapedText, 1) = chunkText

\* ========================================================================
\* The history store: save, delete, set-password, eviction, share tokens (v1.2)
\* ========================================================================
MaxOps == 3             \* requests handled in a run that starts with an empty store
MaxOpsWhenFull == 1     \* requests handled in a run that starts with a full index

MiB == 1048576
\* const MAX_STORAGE_SIZE = 1024 * 1024 * 1024
MAX_STORAGE_SIZE == 1024 * MiB

\* if (history.length > 1000) history.splice(1000)
MaxIndexEntries == 1000

\* audioData.length of the files that are saved
AudioSizes == {300 * MiB, 500 * MiB}

\* the fields of shareData, in the order the object literal lists them
ContentFields ==
    <<"text", "voice", "speed", "pitch", "style", "role", "styleDegree", "cleaningOptions">>

\* what a realtime play is saved with; role, styleDegree and the options are not given
BaseContent ==
    [f \in Range(ContentFields) |->
        CASE f = "text" -> "hi"
          [] f = "voice" -> "zh-CN-XiaoxiaoNeural"
          [] f = "speed" -> "1"
          [] f = "pitch" -> "1"
          [] f = "style" -> "general"
          [] OTHER -> Undefined]

\* the same content with another value in one field
Differing(f) == [BaseContent EXCEPT ![f] = "other"]

\* the contents of the /v1/ requests: the base content and eight that differ from it
\* in one field
Contents == {BaseContent} \cup {Differing(f) : f \in Range(ContentFields)}

\* what is saved as a realtime play
SavedContents == {BaseContent, Differing("text")}

\* JSON.stringify(shareData): the fields that are defined, in order
Stringify(content) ==
    SelectSeq([k \in 1 .. Len(ContentFields) |->
                    <<ContentFields[k], content[ContentFields[k]]>>],
              LAMBDA pair : pair[2] # Undefined)

\* Variant of ContentHash: the voice is left out of the hashed content.
ContentHashWithoutVoice(content) ==
    [sha256 |-> Stringify([content EXCEPT !["voice"] = Undefined])]

\* crypto.subtle.digest("SHA-256", encode(JSON.stringify(shareData))), as an array;
\* the digest is taken to be free of collisions
ContentHash(content) == [sha256 |-> Stringify(content)]

\* the entry updateHistoryIndex makes for an item
IndexEntry(id, metadata) ==
    [id |-> id, size |-> metadata.size, hasPassword |-> metadata.password # "",
     type |-> IF metadata.type = "" THEN "stored" ELSE metadata.type]

\* f with the value v under key k
Put(f, k, v) == [x \in DOMAIN f \cup {k} |-> IF x = k THEN v ELSE f[x]]

\* f without the keys ks
DeleteKeys(f, ks) == [x \in DOMAIN f \ ks |-> f[x]]

RECURSIVE SumSizes(_, _, _)
\* the sum of the sizes of the entries a .. b, halving the range
SumSizes(history, a, b) ==
    IF a > b THEN 0
    ELSE IF a = b THEN history[a].size
    ELSE SumSizes(history, a, (a + b) \div 2) + SumSizes(history, (a + b) \div 2 + 1, b)

\* history.reduce((sum, item) => sum + (item.size || 0), 0)
TotalSize(history) == SumSizes(history, 1, Len(history))

RECURSIVE EvictCount(_, _, _, _)
\* the number of entries the while loop of cleanupStorageIfNeeded shifts off the
\* front of history, given the k it has shifted off and the total that is left
EvictCount(history, k, totalSize, newItemSize) ==
    IF totalSize + newItemSize > MAX_STORAGE_SIZE /\ k < Len(history)
    THEN EvictCount(history, k + 1, totalSize - history[k + 1].size, newItemSize)
    ELSE k

\* the entries k calls of history.shift() return
Shifted(history, k) == SubSeq(history, 1, k)

\* history without the entries that were taken off
Without(history, gone) ==
    SelectSeq(history, LAMBDA e : \A g \in 1 .. Len(gone) : gone[g].id # e.id)

\* history.unshift(entry); if (history.length > 1000) history.splice(1000)
Unshift(history, entry) ==
    LET longer == <<entry>> \o history
    IN  IF Len(longer) > MaxIndexEntries THEN SubSeq(longer, 1, MaxIndexEntries)
                                         ELSE longer

Ids(entries) == {entries[k].id : k \in 1 .. Len(entries)}
IdSeq(entries) == [k \in 1 .. Len(entries) |-> entries[k].id]

\* a request is handled to its end
Handled ==
    /\ nOps < MaxOps
    /\ nOps' = nOps + 1
    /\ procs' = procs
    /\ UNCHANGED exceptStore

\* handleSaveRequest: cleanupStorageIfNeeded(audioData.length), the puts of audio_<id>
\* and meta_<id>, updateHistoryIndex(id, metadata)
StoreSave(size) ==
    /\ Handled
    /\ LET id == nextId
           metadata == [type |-> "", size |-> size, password |-> "", shareUUID |-> 0]
           count == EvictCount(kvIndex, 0, TotalSize(kvIndex), size)
           gone == Shifted(kvIndex, count)
           kept == Without(kvIndex, gone)
       IN  /\ kvAudio' = (kvAudio \ Ids(gone)) \cup {id}
           /\ kvMeta' = Put(DeleteKeys(kvMeta, Ids(gone)), id, metadata)
           /\ kvIndex' = Unshift(kept, IndexEntry(id, metadata))
           /\ evicted' = evicted \o IdSeq(gone)
           /\ lastSave' = [size |-> size, freed |-> gone, total |-> TotalSize(kept)]
           /\ saved' = Append(saved, id)
           /\ nextId' = nextId + 1
    /\ UNCHANGED <<kvShare, deleted, shareResult>>

\* handleSaveRealtimeRequest: the puts of meta_<id> and share_auth_<shareUUID>,
\* updateHistoryIndex(id, metadata)
StoreSaveRealtime(content) ==
    /\ Handled
    /\ LET id == nextId
           shareUUID == nextId + 1
           metadata == [type |-> "realtime", size |-> 0, password |-> "",
                        shareUUID |-> shareUUID]
       IN  /\ kvMeta' = Put(kvMeta, id, metadata)
           /\ kvShare' = Put(kvShare, shareUUID, [contentHash |-> ContentHash(content),
                                                   shareData |-> content])
           /\ kvIndex' = Unshift(kvIndex, IndexEntry(id, metadata))
           /\ saved' = Append(saved, id)
           /\ nextId' = nextId + 2
    /\ UNCHANGED <<kvAudio, evicted, deleted, lastSave, shareResult>>

\* handleDeleteRequest with a Bearer header and an id: audio_<id> and meta_<id> are
\* deleted, history_index is filtered
\* (deleted records the saved items that a request deleted)
StoreDelete(id) ==
    /\ Handled
    /\ kvAudio' = kvAudio \ {id}
    /\ kvMeta' = DeleteKeys(kvMeta, {id})
    /\ kvIndex' = SelectSeq(kvIndex, LAMBDA e : e.id # id)
    /\ deleted' = deleted \cup ({id} \cap Range(saved))
    /\ UNCHANGED <<kvShare, nextId, saved, evicted, lastSave, shareResult>>

\* handleSetPasswordRequest with a Bearer header, an id and a password:
\* metadata.password = password || null, written back to meta_<id>
StoreSetPassword(id, password) ==
    /\ Handled
    /\ kvMeta' = IF id \in DOMAIN kvMeta
                 THEN [kvMeta EXCEPT ![id].password = password]
                 ELSE kvMeta
    /\ UNCHANGED <<kvAudio, kvShare, kvIndex, nextId, saved, evicted, deleted, lastSave,
                   shareResult>>

\* handleRequest for a /v1/ path with Bearer share_<uuid>: 403 without a record for
\* the uuid and 403 when the hash of the body's content is not the stored one
ShareStatus(uuid, content) ==
    IF uuid \notin DOMAIN kvShare THEN 403
    ELSE IF ContentHash(content) # kvShare[uuid].contentHash THEN 403
    ELSE 200

StoreShareRequest(uuid, content) ==
    /\ Handled
    /\ shareResult' = [uuid |-> uuid, content |-> content,
                       status |-> ShareStatus(uuid, content)]
    /\ UNCHANGED <<kvAudio, kvMeta, kvShare, kvIndex, nextId, saved, evicted, deleted,
                   lastSave>>

\* the ids and uuids a request may name: those given out in the run, and one more
NamedIds == 1 .. (2 * MaxOps)

\* the store after 1000 realtime plays were saved: item -k is the k-th newest
PreloadedIds == {0 - k : k \in 1 .. MaxIndexEntries}
PreloadedMeta(id) == [type |-> "realtime", size |-> 0, password |-> "", shareUUID |-> 0]

FullStore ==
    /\ kvAudio = {}
    /\ kvMeta = [id \in PreloadedIds |-> PreloadedMeta(id)]
    /\ kvShare = <<>>
    /\ kvIndex = [k \in 1 .. MaxIndexEntries |-> IndexEntry(0 - k, PreloadedMeta(0 - k))]
    /\ nOps = MaxOps - MaxOpsWhenFull

EmptyStore ==
    /\ kvAudio = {}
    /\ kvMeta = <<>>
    /\ kvShare = <<>>
    /\ kvIndex = <<>>
    /\ nOps = 0

StoreInit ==
    /\ EmptyStore \/ FullStore
    /\ nextId = 1
    /\ saved = <<>>
    /\ evicted = <<>>
    /\ deleted = {}
    /\ lastSave = NoSave
    /\ shareResult = NoShareResult
    /\ procs = <<>>

InitStore ==
    /\ SchedIdle /\ TokenIdle /\ ReqIdle /\ TextIdle
    /\ IdIdle /\ WebIdle /\ VoiceIdle /\ XmlIdle /\ StoreInit

NextStore ==
    \/ \E size \in AudioSizes : StoreSave(size)
    \/ \E content \in SavedContents : StoreSaveRealtime(content)
    \/ \E id \in NamedIds : StoreDelete(id)
    \/ \E id \in NamedIds : \E password \in {"", "pw"} : StoreSetPassword(id, password)
    \/ \E uuid \in NamedIds : \E content \in Contents : StoreShareRequest(uuid, content)

SpecStore == InitStore /\ [][NextStore]_vars

\* ------------------------------------------------------------------------
\* Share tokens
\* ------------------------------------------------------------------------
\* the last /v1/ request with a share token was let through
ShareAccepted == shareResult # NoShareResult /\ shareResult.status = 200

\* the last /v1/ request with a share token was answered 403
ShareRejected == shareResult # NoShareResult /\ shareResult.status = 403

\* C31: a /v1/ request with Bearer share_<uuid> is let through only if a
\* share-authorization record for the uuid exists and the hash of the request's
\* content is the hash stored with the record; a request for a recorded uuid whose
\* content differs from the saved content in a field is answered 403.
C31_ShareAuthorization ==
    /\ ShareAccepted =>
          /\ shareResult.uuid \in DOMAIN kvShare
          /\ ContentHash(shareResult.content) = kvShare[shareResult.uuid].contentHash
          /\ shareResult.content = kvShare[shareResult.uuid].shareData
    /\ (/\ shareResult # NoShareResult
        /\ shareResult.uuid \in DOMAIN kvShare
        /\ \E f \in Range(ContentFields) :
              shareResult.content[f] # kvShare[shareResult.uuid].shareData[f])
          => shareResult.status = 403

\* C31 witness: a request with the saved content was let through for the uuid of a
\* saved realtime play.
C31_Witness ==
    /\ ShareAccepted
    /\ shareResult.uuid \in DOMAIN kvShare
    /\ shareResult.content = BaseContent
    /\ kvShare[shareResult.uuid].shareData = BaseContent

\* a request for the uuid of a saved realtime play whose content differs in the
\* voice alone was answered 403
C31_RejectedWitness ==
    /\ ShareRejected
    /\ shareResult.uuid \in DOMAIN kvShare
    /\ kvShare[shareResult.uuid].shareData = BaseContent
    /\ shareResult.content = Differing("voice")

\* ------------------------------------------------------------------------
\* Eviction
\* ------------------------------------------------------------------------
\* the position of an id in a sequence of ids, 0 when it is not there
PositionIn(ids, id) ==
    IF \E k \in 1 .. Len(ids) : ids[k] = id
    THEN CHOOSE k \in 1 .. Len(ids) : ids[k] = id
    ELSE 0

\* every item saved before an evicted item, and not deleted by a request, was
\* evicted before it
EvictedOldestFirst ==
    \A k \in 1 .. Len(evicted) :
        \A j \in 1 .. Len(saved) :
            (j < PositionIn(saved, evicted[k]) /\ saved[j] \notin deleted)
                => \E h \in 1 .. (k - 1) : evicted[h] = saved[j]

\* the last save evicted nothing once the new item fitted: with the last evicted
\* item still stored, the new item did not fit
EvictionStopsWhenFits ==
    Len(lastSave.freed) > 0 =>
        lastSave.total + lastSave.freed[Len(lastSave.freed)].size + lastSave.size
            > MAX_STORAGE_SIZE

\* C32: cleanupStorageIfNeeded evicts oldest first (an item is evicted only if
\* every item saved before it has already been evicted) and stops evicting as soon
\* as the new item fits.
C32_EvictsOldestFirst == EvictedOldestFirst /\ EvictionStopsWhenFits

\* C32 witness: the third save evicted the second item, the newest one, while the
\* first item is still stored and indexed.
C32_Witness ==
    /\ saved = <<1, 2, 3>>
    /\ evicted = <<2>>
    /\ 1 \in kvAudio
    /\ 1 \in Ids(kvIndex)
    /\ lastSave.size = 500 * MiB

\* ------------------------------------------------------------------------
\* The index and the blobs
\* ------------------------------------------------------------------------
\* every audio_<id> and every meta_<id> in the store has an entry in history_index
BlobsAreIndexed == (kvAudio \cup DOMAIN kvMeta) \subseteq Ids(kvIndex)

\* every entry of history_index for a stored item has its audio_<id> in the store
IndexedAudioIsStored ==
    \A k \in 1 .. Len(kvIndex) : kvIndex[k].type = "stored" => kvIndex[k].id \in kvAudio

\* C36: after any sequence of completed save, delete and eviction operations, every
\* audio_<id> / meta_<id> entry of the KV store has an entry for the id in
\* history_index, and every index entry of a stored item has its audio present.
C36_IndexConsistent == BlobsAreIndexed /\ IndexedAudioIsStored

\* C36 witness: a save into an index of 1000 entries has cut the oldest entry off
\* the index, and the metadata of that item is still in the store.
C36_Witness ==
    /\ Len(saved) = 1
    /\ Len(kvIndex) = MaxIndexEntries
    /\ kvIndex[1].id = saved[1]
    /\ (0 - MaxIndexEntries) \in DOMAIN kvMeta
    /\ (0 - MaxIndexEntries) \notin Ids(kvIndex)

\* in a run that starts with the empty store, where the index stays below 1000
\* entries, the index and the blobs agree
ConsistentBelowCap ==
    (0 - 1) \notin DOMAIN kvMeta => C36_IndexConsistent

\* ------------------------------------------------------------------------
\* Deletion
\* ------------------------------------------------------------------------
\* the id was given to a realtime play: the save took two UUIDs, the id and the
\* share UUID that follows it
IsRealtimeItem(id) ==
    LET j == PositionIn(saved, id)
    IN  /\ j > 0
        /\ (IF j < Len(saved) THEN saved[j + 1] ELSE nextId) = id + 2

\* nothing derived from the item is left: no audio, no metadata, no index entry and,
\* for a realtime play, no share-authorization record, so that no /v1/ request with
\* its share UUID is let through
Revoked(id) ==
    /\ id \notin kvAudio
    /\ id \notin DOMAIN kvMeta
    /\ id \notin Ids(kvIndex)
    /\ IsRealtimeItem(id) =>
          /\ (id + 1) \notin DOMAIN kvShare
          /\ \A content \in Contents : ShareStatus(id + 1, content) = 403

\* no audio, no metadata and no index entry of the item are left
BlobsAndEntryGone(id) ==
    id \notin kvAudio /\ id \notin DOMAIN kvMeta /\ id \notin Ids(kvIndex)

\* C38: after handleDeleteRequest(id) completes, the KV store holds no audio, no
\* metadata, no index entry and, for a realtime item, no share-authorization record
\* for it, so its share UUID no longer authorizes any /v1/ request.
C38_DeletionRevokes ==
    \A id \in deleted : Revoked(id)

\* the part of C38 that the handler does: audio, metadata and index entry are gone
DeletionRemovesBlobs ==
    \A id \in deleted : BlobsAndEntryGone(id)

\* C38 witness: the realtime play 1 was saved and deleted, its share-authorization
\* record 2 is still in the store, and a /v1/ request with share_2 and the saved
\* content was let through.
C38_Witness ==
    /\ saved = <<1>>
    /\ IsRealtimeItem(1)
    /\ 1 \in deleted
    /\ BlobsAndEntryGone(1)
    /\ 2 \in DOMAIN kvShare
    /\ ShareStatus(2, BaseContent) = 200
    /\ ShareAccepted
    /\ shareResult.uuid = 2

\* ------------------------------------------------------------------------
\* Passwords
\* ------------------------------------------------------------------------
\* C39: the hasPassword flag of an item's entry in history_index equals whether the
\* item's metadata has a non-empty password, after any sequence of save and
\* set-password operations.
C39_HasPasswordInSync ==
    \A k \in 1 .. Len(kvIndex) :
        kvIndex[k].id \in DOMAIN kvMeta =>
            kvIndex[k].hasPassword = (kvMeta[kvIndex[k].id].password # "")

\* C39 witness: item 1 was saved and given the password "pw"; its metadata has the
\* password and its index entry still says hasPassword: false.
C39_Witness ==
    /\ saved = <<1>>
    /\ Len(kvIndex) = 1
    /\ kvIndex[1].id = 1
    /\ 1 \in DOMAIN kvMeta
    /\ kvMeta[1].password = "pw"
    /\ kvIndex[1].hasPassword = FALSE

\* ========================================================================
\* Concurrent requests on history_index: every await on the KV namespace is a step
\* ========================================================================
NumRequests == 2        \* requests that run concurrently, one per process

Procs == 1 .. NumRequests

\* a process that handles no request
IdleProc == [pc |-> "idle", id |-> 0, size |-> 0, history |-> <<>>, totalSize |-> 0]

\* the metadata handleSaveRequest builds: no type, no password
SaveMetadata(size) == [type |-> "", size |-> size, password |-> "", shareUUID |-> 0]

\* the step of a process changes nothing outside the store
RaceFrame == nOps' = nOps /\ UNCHANGED exceptStore

\* while (totalSize + newItemSize > MAX_STORAGE_SIZE && history.length > 0)
CleanupLoops(history, totalSize, newItemSize) ==
    totalSize + newItemSize > MAX_STORAGE_SIZE /\ Len(history) > 0

\* handleSaveRequest up to the call of cleanupStorageIfNeeded: the id is taken
SaveBegin(pr, size) ==
    /\ procs[pr].pc = "idle"
    /\ procs' = [procs EXCEPT ![pr] = [IdleProc EXCEPT !.pc = "cleanupGet",
                                                       !.id = nextId, !.size = size]]
    /\ nextId' = nextId + 1
    /\ RaceFrame
    /\ UNCHANGED <<kvAudio, kvMeta, kvShare, kvIndex, saved, evicted, deleted, lastSave,
                   shareResult>>

\* cleanupStorageIfNeeded: await get("history_index"), the reduce
CleanupGet(pr) ==
    /\ procs[pr].pc = "cleanupGet"
    /\ LET total == TotalSize(kvIndex)
       IN  procs' = [procs EXCEPT ![pr].history = kvIndex,
                                  ![pr].totalSize = total,
                                  ![pr].pc = IF CleanupLoops(kvIndex, total, procs[pr].size)
                                             THEN "cleanupEvict" ELSE "cleanupPut"]
    /\ RaceFrame
    /\ UNCHANGED <<kvAudio, kvMeta, kvShare, kvIndex, nextId, saved, evicted, deleted,
                   lastSave, shareResult>>

\* cleanupStorageIfNeeded: one turn of the while loop, history.shift() and the two
\* deletes
CleanupEvict(pr) ==
    /\ procs[pr].pc = "cleanupEvict"
    /\ LET oldestItem == Head(procs[pr].history)
           history == Tail(procs[pr].history)
           total == procs[pr].totalSize - oldestItem.size
       IN  /\ kvAudio' = kvAudio \ {oldestItem.id}
           /\ kvMeta' = DeleteKeys(kvMeta, {oldestItem.id})
           /\ evicted' = Append(evicted, oldestItem.id)
           /\ procs' = [procs EXCEPT ![pr].history = history,
                                     ![pr].totalSize = total,
                                     ![pr].pc = IF CleanupLoops(history, total, procs[pr].size)
                                                THEN "cleanupEvict" ELSE "cleanupPut"]
    /\ RaceFrame
    /\ UNCHANGED <<kvShare, kvIndex, nextId, saved, deleted, lastSave, shareResult>>

\* cleanupStorageIfNeeded: await put("history_index", JSON.stringify(history))
CleanupPut(pr) ==
    /\ procs[pr].pc = "cleanupPut"
    /\ kvIndex' = procs[pr].history
    /\ procs' = [procs EXCEPT ![pr].pc = "putBlobs"]
    /\ RaceFrame
    /\ UNCHANGED <<kvAudio, kvMeta, kvShare, nextId, saved, evicted, deleted, lastSave,
                   shareResult>>

\* handleSaveRequest: the puts of audio_<id> and meta_<id>
PutBlobs(pr) ==
    /\ procs[pr].pc = "putBlobs"
    /\ kvAudio' = kvAudio \cup {procs[pr].id}
    /\ kvMeta' = Put(kvMeta, procs[pr].id, SaveMetadata(procs[pr].size))
    /\ procs' = [procs EXCEPT ![pr].pc = "indexGet"]
    /\ RaceFrame
    /\ UNCHANGED <<kvShare, kvIndex, nextId, saved, evicted, deleted, lastSave,
                   shareResult>>

\* updateHistoryIndex: await get("history_index")
IndexGet(pr) ==
    /\ procs[pr].pc = "indexGet"
    /\ procs' = [procs EXCEPT ![pr].history = kvIndex, ![pr].pc = "indexPut"]
    /\ RaceFrame
    /\ UNCHANGED <<kvAudio, kvMeta, kvShare, kvIndex, nextId, saved, evicted, deleted,
                   lastSave, shareResult>>

\* updateHistoryIndex: the unshift, the splice and await put("history_index", ...);
\* the save request is answered
IndexPut(pr) ==
    /\ procs[pr].pc = "indexPut"
    /\ kvIndex' = Unshift(procs[pr].history,
                          IndexEntry(procs[pr].id, SaveMetadata(procs[pr].size)))
    /\ saved' = Append(saved, procs[pr].id)
    /\ procs' = [procs EXCEPT ![pr].pc = "done"]
    /\ RaceFrame
    /\ UNCHANGED <<kvAudio, kvMeta, kvShare, nextId, evicted, deleted, lastSave,
                   shareResult>>

\* handleDeleteRequest for an item that was saved, up to its first delete
DeleteBegin(pr, id) ==
    /\ procs[pr].pc = "idle"
    /\ id \in Range(saved)
    /\ procs' = [procs EXCEPT ![pr] = [IdleProc EXCEPT !.pc = "deleteBlobs", !.id = id]]
    /\ RaceFrame
    /\ UNCHANGED <<kvAudio, kvMeta, kvShare, kvIndex, nextId, saved, evicted, deleted,
                   lastSave, shareResult>>

\* handleDeleteRequest: the deletes of audio_<id> and meta_<id>
DeleteBlobs(pr) ==
    /\ procs[pr].pc = "deleteBlobs"
    /\ kvAudio' = kvAudio \ {procs[pr].id}
    /\ kvMeta' = DeleteKeys(kvMeta, {procs[pr].id})
    /\ procs' = [procs EXCEPT ![pr].pc = "deleteGet"]
    /\ RaceFrame
    /\ UNCHANGED <<kvShare, kvIndex, nextId, saved, evicted, deleted, lastSave,
                   shareResult>>

\* handleDeleteRequest: await get("history_index")
DeleteGet(pr) ==
    /\ procs[pr].pc = "deleteGet"
    /\ procs' = [procs EXCEPT ![pr].history = kvIndex, ![pr].pc = "deletePut"]
    /\ RaceFrame
    /\ UNCHANGED <<kvAudio, kvMeta, kvShare, kvIndex, nextId, saved, evicted, deleted,
                   lastSave, shareResult>>

\* handleDeleteRequest: the filter and await put("history_index", ...); the delete
\* request is answered
DeletePut(pr) ==
    /\ procs[pr].pc = "deletePut"
    /\ kvIndex' = SelectSeq(procs[pr].history, LAMBDA e : e.id # procs[pr].id)
    /\ deleted' = deleted \cup {procs[pr].id}
    /\ procs' = [procs EXCEPT ![pr].pc = "done"]
    /\ RaceFrame
    /\ UNCHANGED <<kvAudio, kvMeta, kvShare, nextId, saved, evicted, lastSave,
                   shareResult>>

\* the store after one save of 500 MiB, or the empty store; no request is running
RaceInit ==
    /\ \/ /\ kvAudio = {}
          /\ kvMeta = <<>>
          /\ kvIndex = <<>>
          /\ saved = <<>>
          /\ nextId = 1
       \/ /\ kvAudio = {1}
          /\ kvMeta = Put(<<>>, 1, SaveMetadata(500 * MiB))
          /\ kvIndex = <<IndexEntry(1, SaveMetadata(500 * MiB))>>
          /\ saved = <<1>>
          /\ nextId = 2
    /\ kvShare = <<>>
    /\ evicted = <<>>
    /\ deleted = {}
    /\ lastSave = NoSave
    /\ shareResult = NoShareResult
    /\ procs = [pr \in Procs |-> IdleProc]
    /\ nOps = 0

InitRace ==
    /\ SchedIdle /\ TokenIdle /\ ReqIdle /\ TextIdle
    /\ IdIdle /\ WebIdle /\ VoiceIdle /\ XmlIdle /\ RaceInit

NextRace ==
    \E pr \in Procs :
        \/ \E size \in AudioSizes : SaveBegin(pr, size)
        \/ CleanupGet(pr)
        \/ CleanupEvict(pr)
        \/ CleanupPut(pr)
        \/ PutBlobs(pr)
        \/ IndexGet(pr)
        \/ IndexPut(pr)
        \/ \E id \in Range(saved) : DeleteBegin(pr, id)
        \/ DeleteBlobs(pr)
        \/ DeleteGet(pr)
        \/ DeletePut(pr)

SpecRace == InitRace /\ [][NextRace]_vars

\* every request that was begun is answered
AllAnswered == \A pr \in Procs : procs[pr].pc \in {"idle", "done"}

\* the index has every item that was saved and neither deleted nor evicted, and no
\* item that was deleted
IndexHasWhatWasSaved ==
    /\ \A id \in Range(saved) :
          (id \notin deleted /\ id \notin Range(evicted)) => id \in Ids(kvIndex)
    /\ \A id \in deleted : id \notin Ids(kvIndex)

\* C37: when two save requests, or a save and a delete of another item, interleave
\* at their KV reads and writes of history_index, after both complete the index
\* contains every item that was saved and not deleted, and no item that was deleted.
C37_NoLostIndexUpdate == AllAnswered => IndexHasWhatWasSaved

\* C37 witness: two saves that fit the store together were both answered, nothing
\* was evicted or deleted, and the index has only one of the two items.
C37_Witness ==
    /\ \A pr \in Procs : procs[pr].pc = "done"
    /\ saved \in {<<1, 2>>, <<2, 1>>}
    /\ evicted = <<>>
    /\ deleted = {}
    /\ kvAudio = {1, 2}
    /\ Len(kvIndex) = 1

\* a deleted item is back in the index: the save read the index before the delete
\* wrote it and wrote its own copy after
C37_DeletedBackWitness ==
    /\ \A pr \in Procs : procs[pr].pc = "done"
    /\ deleted = {1}
    /\ 1 \in Ids(kvIndex)
    /\ 1 \notin DOMAIN kvMeta

====
